---- MODULE Spec2Model ----
(***************************************************************************)
(* Model of the travel planner: streamlit_app.py (itinerary JSON           *)
(* extraction, flight-offer normalisation, the generation action of main), *)
(* src/itinerary_graph.py (planner_node) and src/utils.py (clamp_days).    *)
(*                                                                         *)
(* Text is a sequence of characters, each a string.  A Python value is a   *)
(* tagged record [t |-> type, v |-> payload]; a dict is a function from    *)
(* its keys to its values, so key order is not part of the value.          *)
(***************************************************************************)
EXTENDS Integers, Sequences, FiniteSets, TLC

VARIABLES
    parts,       \* extractor: the pieces the argument text is put together from
    text,        \* extractor: the argument of parse_itinerary_json
    parsed,      \* extractor: its outcome, NotCalled before the call
    num_days,    \* clamp: the argument of clamp_days
    clamped,     \* clamp: its result, NotCalled before the call
    flight,      \* leg: the provider itinerary handed to parse_itinerary
    leg,         \* leg: its outcome, NotCalled before the call
    offer,       \* normaliser: the raw offer handed to parse_flight_offer
    normalized,  \* normaliser: its outcome, NotCalled before the call
    request,     \* main: the PlannerInput built by sidebar_inputs
    provider,    \* main: the sidebar's provider radio
    keys,        \* main: hf_token, gemini_key (sidebar) and the settings' keys
    pc,          \* main: position in the script run
    reply,       \* main: what the provider answered
    calls,       \* main: outbound provider calls made, in order
    itinerary,   \* main: planner_node's parse before the clamp (Grok path)
    shown,       \* main: arguments of display_formatted_itinerary, in order
    errors,      \* main: st.error messages shown, in order
    offers,      \* display: the raw offers handed to display_flight_offers
    max_stops,   \* display: the "Max Stops" selection
    sort_by,     \* display: the "Sort By" selection
    parsed_offers,    \* display: the normalised offers, NotCalled before the call
    filtered_offers,  \* display: the outcome of the filter step
    displayed    \* display: the outcome of the call, the offers in display order

extractVars == <<parts, text, parsed>>
clampVars == <<num_days, clamped>>
legVars == <<flight, leg>>
offerVars == <<offer, normalized>>
mainVars == <<request, provider, keys, pc, reply, calls, itinerary, shown, errors>>

displayVars == <<offers, max_stops, sort_by, parsed_offers, filtered_offers, displayed>>

vars == <<extractVars, clampVars, legVars, offerVars, mainVars, displayVars>>

NotCalled == [t |-> "notcalled", v |-> 0]
\* the value of a variable the specification at hand does not use
Unused == [t |-> "unused", v |-> 0]

ExtractUnused == parts = Unused /\ text = Unused /\ parsed = Unused
ClampUnused == num_days = Unused /\ clamped = Unused
LegUnused == flight = Unused /\ leg = Unused
OfferUnused == offer = Unused /\ normalized = Unused
MainUnused ==
    /\ request = Unused /\ provider = Unused /\ keys = Unused /\ pc = Unused
    /\ reply = Unused /\ calls = Unused /\ itinerary = Unused
    /\ shown = Unused /\ errors = Unused
DisplayUnused ==
    /\ offers = Unused /\ max_stops = Unused /\ sort_by = Unused
    /\ parsed_offers = Unused /\ filtered_offers = Unused /\ displayed = Unused

-----------------------------------------------------------------------------
(* Python values *)

PyNone == [t |-> "none", v |-> 0]
PyInt(n) == [t |-> "int", v |-> n]
PyFloat(lexeme) == [t |-> "float", v |-> lexeme]
PyBool(b) == [t |-> "bool", v |-> b]
PyStr(chars) == [t |-> "str", v |-> chars]
PyList(items) == [t |-> "list", v |-> items]
PyDict(map) == [t |-> "dict", v |-> map]
EmptyDict == PyDict(<< >>)

\* d[key] = val on a dict: a later pair replaces an earlier one with the same key
DictSet(map, key, val) ==
    [k \in (DOMAIN map) \cup {key} |-> IF k = key THEN val ELSE map[k]]

\* an outcome of a call: a returned value, or an exception that escapes
Return(val) == [exc |-> "none", val |-> val]
Raise(kind) == [exc |-> kind, val |-> PyNone]

-----------------------------------------------------------------------------
(* str operations *)

\* the characters str.strip() removes, among those a text here can hold
PyWhitespace == {" ", "\t", "\n", "\r", "\f"}

RECURSIVE lstrip(_)
lstrip(s) ==
    IF Len(s) > 0 /\ s[1] \in PyWhitespace THEN lstrip(Tail(s)) ELSE s

RECURSIVE rstrip(_)
rstrip(s) ==
    IF Len(s) > 0 /\ s[Len(s)] \in PyWhitespace
    THEN rstrip(SubSeq(s, 1, Len(s) - 1)) ELSE s

strip(s) == rstrip(lstrip(s))

startswith(s, prefix) ==
    Len(s) >= Len(prefix) /\ SubSeq(s, 1, Len(prefix)) = prefix

endswith(s, suffix) ==
    Len(s) >= Len(suffix) /\ SubSeq(s, Len(s) - Len(suffix) + 1, Len(s)) = suffix

\* s[n:]
DropFirst(s, n) == SubSeq(s, n + 1, Len(s))

\* s[:-n]
DropLast(s, n) == SubSeq(s, 1, Len(s) - n)

\* s[i:i+len(word)] == word, i counted from 1
StartsAt(s, i, word) ==
    i + Len(word) - 1 <= Len(s) /\ SubSeq(s, i, i + Len(word) - 1) = word

-----------------------------------------------------------------------------
(* json.loads, as the standard library's decoder scans a str.  A scan      *)
(* result is [ok, val, pos]: pos is the index after the value.  Texts hold *)
(* no backslash, so string escapes are not scanned.                        *)

Quote == "\""
\* the grave accent U+0060, which a string literal of this language cannot hold
Backtick == "U+0060"
Fence == <<Backtick, Backtick, Backtick>>
FenceJson == Fence \o <<"j", "s", "o", "n">>

JsonWhitespace == {" ", "\t", "\n", "\r"}
ControlChars == {"\t", "\n", "\r", "\f"}
Digits == {"0", "1", "2", "3", "4", "5", "6", "7", "8", "9"}

DigitValue(c) ==
    CASE c = "0" -> 0 [] c = "1" -> 1 [] c = "2" -> 2 [] c = "3" -> 3
      [] c = "4" -> 4 [] c = "5" -> 5 [] c = "6" -> 6 [] c = "7" -> 7
      [] c = "8" -> 8 [] c = "9" -> 9

NoScan == [ok |-> FALSE, val |-> PyNone, pos |-> 0]
Scanned(val, pos) == [ok |-> TRUE, val |-> val, pos |-> pos]

RECURSIVE SkipWhitespace(_, _)
SkipWhitespace(s, i) ==
    IF i <= Len(s) /\ s[i] \in JsonWhitespace THEN SkipWhitespace(s, i + 1) ELSE i

\* index after the run of digits starting at i (i itself when there is none)
RECURSIVE SkipDigits(_, _)
SkipDigits(s, i) ==
    IF i <= Len(s) /\ s[i] \in Digits THEN SkipDigits(s, i + 1) ELSE i

\* the number written by the digits s[i..j]
RECURSIVE DigitsValue(_, _, _)
DigitsValue(s, i, j) ==
    IF j < i THEN 0 ELSE 10 * DigitsValue(s, i, j - 1) + DigitValue(s[j])

\* py_scanstring: i is the index after the opening quote
RECURSIVE scanstring(_, _, _)
scanstring(s, begin, i) ==
    IF i > Len(s) THEN NoScan
    ELSE IF s[i] = Quote THEN Scanned(PyStr(SubSeq(s, begin, i - 1)), i + 1)
    ELSE IF s[i] \in ControlChars THEN NoScan
    ELSE scanstring(s, begin, i + 1)

\* NUMBER_RE = (-?(?:0|[1-9]\d*))(\.\d+)?([eE][-+]?\d+)? matched at i, group by
\* group.  The index after (?:0|[1-9]\d*) at d (d itself when it does not match)
IntegerEnd(s, d) ==
    IF d <= Len(s) /\ s[d] = "0" THEN d + 1 ELSE SkipDigits(s, d)

\* the index after (\.\d+)? at j
FractionEnd(s, j) ==
    IF j <= Len(s) /\ s[j] = "." /\ SkipDigits(s, j + 1) > j + 1
    THEN SkipDigits(s, j + 1) ELSE j

\* the index after ([eE][-+]?\d+)? at j
ExponentEnd(s, j) ==
    LET signEnd == IF j + 1 <= Len(s) /\ s[j + 1] \in {"-", "+"} THEN j + 2 ELSE j + 1
    IN  IF j <= Len(s) /\ s[j] \in {"e", "E"} /\ SkipDigits(s, signEnd) > signEnd
        THEN SkipDigits(s, signEnd) ELSE j

\* the token s[i..numEnd-1], whose integer part is s[d..intEnd-1]: an int
\* when there is neither fraction nor exponent, else a float
NumberToken(s, i, d, intEnd, numEnd) ==
    IF intEnd = d THEN NoScan
    ELSE IF numEnd = intEnd
    THEN Scanned(PyInt((IF d > i THEN -1 ELSE 1) * DigitsValue(s, d, intEnd - 1)), intEnd)
    ELSE Scanned(PyFloat(SubSeq(s, i, numEnd - 1)), numEnd)

IntegerToken(s, i, d, intEnd) ==
    NumberToken(s, i, d, intEnd, ExponentEnd(s, FractionEnd(s, intEnd)))

SignedToken(s, i, d) == IntegerToken(s, i, d, IntegerEnd(s, d))

match_number(s, i) ==
    SignedToken(s, i, IF i <= Len(s) /\ s[i] = "-" THEN i + 1 ELSE i)

RECURSIVE scan_once(_, _)
RECURSIVE JSONObjectPairs(_, _, _)
RECURSIVE JSONArrayItems(_, _, _)

\* JSONObject's loop: i is the index after the opening quote of the next key
JSONObjectPairs(s, i, pairs) ==
    LET key == scanstring(s, i, i)
        colon == SkipWhitespace(s, key.pos)
        value == scan_once(s, SkipWhitespace(s, colon + 1))
        next == SkipWhitespace(s, value.pos)
        more == DictSet(pairs, key.val.v, value.val)
        name == SkipWhitespace(s, next + 1)
    IN  IF ~key.ok THEN NoScan
        ELSE IF colon > Len(s) \/ s[colon] # ":" THEN NoScan
        ELSE IF ~value.ok THEN NoScan
        ELSE IF next > Len(s) THEN NoScan
        ELSE IF s[next] = "}" THEN Scanned(PyDict(more), next + 1)
        ELSE IF s[next] # "," THEN NoScan
        ELSE IF name > Len(s) \/ s[name] # Quote THEN NoScan
        ELSE JSONObjectPairs(s, name + 1, more)

\* JSONObject: i is the index after the opening brace
JSONObject(s, i) ==
    LET first == SkipWhitespace(s, i)
    IN  IF first > Len(s) THEN NoScan
        ELSE IF s[first] = "}" THEN Scanned(EmptyDict, first + 1)
        ELSE IF s[first] # Quote THEN NoScan
        ELSE JSONObjectPairs(s, first + 1, << >>)

\* JSONArray's loop: i is the index of the next item
JSONArrayItems(s, i, items) ==
    LET value == scan_once(s, i)
        next == SkipWhitespace(s, value.pos)
    IN  IF ~value.ok THEN NoScan
        ELSE IF next > Len(s) THEN NoScan
        ELSE IF s[next] = "]" THEN Scanned(PyList(Append(items, value.val)), next + 1)
        ELSE IF s[next] # "," THEN NoScan
        ELSE JSONArrayItems(s, SkipWhitespace(s, next + 1), Append(items, value.val))

\* JSONArray: i is the index after the opening bracket
JSONArray(s, i) ==
    LET first == SkipWhitespace(s, i)
    IN  IF first > Len(s) THEN NoScan
        ELSE IF s[first] = "]" THEN Scanned(PyList(<< >>), first + 1)
        ELSE JSONArrayItems(s, first, << >>)

scan_once(s, i) ==
    IF i > Len(s) THEN NoScan
    ELSE IF s[i] = Quote THEN scanstring(s, i + 1, i + 1)
    ELSE IF s[i] = "{" THEN JSONObject(s, i + 1)
    ELSE IF s[i] = "[" THEN JSONArray(s, i + 1)
    ELSE IF StartsAt(s, i, <<"n", "u", "l", "l">>) THEN Scanned(PyNone, i + 4)
    ELSE IF StartsAt(s, i, <<"t", "r", "u", "e">>) THEN Scanned(PyBool(TRUE), i + 4)
    ELSE IF StartsAt(s, i, <<"f", "a", "l", "s", "e">>) THEN Scanned(PyBool(FALSE), i + 5)
    ELSE match_number(s, i)

\* json.loads(s): Return(value), or Raise("JSONDecodeError")
json_loads(s) ==
    LET value == scan_once(s, SkipWhitespace(s, 1))
    IN  IF value.ok /\ SkipWhitespace(s, value.pos) = Len(s) + 1
        THEN Return(value.val)
        ELSE Raise("JSONDecodeError")

-----------------------------------------------------------------------------
(* streamlit_app.parse_itinerary_json *)

\* strip_fences with text[8:] for text[7:]: one character too many is dropped
strip_fences_off_by_one(s) ==
    LET a == strip(s)
        b == IF startswith(a, FenceJson) THEN DropFirst(a, 8) ELSE a
        c == IF startswith(b, Fence) THEN DropFirst(b, 3) ELSE b
        d == IF endswith(c, Fence) THEN DropLast(c, 3) ELSE c
    IN  strip(d)

\* lines 27-34: strip, drop a leading fence+json, a leading fence, a trailing
\* fence, strip
strip_fences(s) ==
    LET a == strip(s)
        b == IF startswith(a, FenceJson) THEN DropFirst(a, 7) ELSE a
        c == IF startswith(b, Fence) THEN DropFirst(b, 3) ELSE b
        d == IF endswith(c, Fence) THEN DropLast(c, 3) ELSE c
    IN  strip(d)

\* brace_search with the lazy pattern \{.*?\}: the span ends at the first "}"
brace_search_lazy(s) ==
    LET opens == {i \in 1..Len(s) : s[i] = "{" /\ \E j \in (i + 1)..Len(s) : s[j] = "}"}
        start == CHOOSE i \in opens : \A k \in opens : i <= k
        stop == CHOOSE j \in start..Len(s) : s[j] = "}" /\ \A k \in start..(j - 1) : s[k] # "}"
    IN  IF opens = {} THEN << >> ELSE SubSeq(s, start, stop)

\* re.search(r'\{.*\}', s, re.DOTALL): the leftmost "{" that some later "}"
\* follows, extended greedily to the last "}"; << >> stands for no match
brace_search(s) ==
    LET opens == {i \in 1..Len(s) : s[i] = "{" /\ \E j \in (i + 1)..Len(s) : s[j] = "}"}
        start == CHOOSE i \in opens : \A k \in opens : i <= k
        stop == CHOOSE j \in start..Len(s) : s[j] = "}" /\ \A k \in (j + 1)..Len(s) : s[k] # "}"
    IN  IF opens = {} THEN << >> ELSE SubSeq(s, start, stop)

\* lines 36-45: the handler of the first JSONDecodeError; s is text as rebound
\* by lines 27-34
extract_fallback(s) ==
    LET json_match == brace_search(s)
        loaded == json_loads(json_match)
    IN  IF json_match # << >> /\ loaded.exc = "none"
        THEN loaded
        ELSE Return(EmptyDict)

parse_itinerary_json(arg) ==
    IF arg.t = "dict" THEN Return(arg)
    ELSE IF arg.t = "str"
    THEN LET stripped == strip_fences(arg.v)
             loaded == json_loads(stripped)
         IN  IF loaded.exc = "none" THEN loaded ELSE extract_fallback(stripped)
    ELSE Return(EmptyDict)

-----------------------------------------------------------------------------
(* The extractor's inputs.  A text is                                      *)
(*   lead \o opener \o left \o body \o right \o closer \o trail            *)
(* with whitespace runs lead, left, right, trail, or a short string over   *)
(* BraceAlphabet taken whole as the body.                                  *)

MaxPad == 1
MaxLen == 3

\* the whitespace run of length n: newline, space, newline, ...
RECURSIVE Pad(_)
Pad(n) == IF n = 0 THEN << >> ELSE Append(Pad(n - 1), IF n % 2 = 1 THEN "\n" ELSE " ")

Pads == {Pad(n) : n \in 0..MaxPad}

Openers == {<< >>, Fence, FenceJson, FenceJson \o Fence, <<"a", ":">>, <<"[">>}
Closers == {<< >>, Fence, <<"a">>, <<"]">>}

ObjA1 == <<"{", Quote, "a", Quote, ":", "1", "}">>
ObjB2 == <<"{", Quote, "b", Quote, ":", "2", "}">>

ObjectBodies ==
    { <<"{", "}">>,
      ObjA1,
      <<"{", Quote, "a", Quote, ":">> \o ObjB2 \o <<"}">>,
      <<"{", Quote, "a", Quote, ":", "1", ",", Quote, "a", Quote, ":", "2", "}">>,
      <<"{", Quote, "a", Quote, ":", Quote, "}", Quote, "}">>,
      <<"{", Quote, "a", Quote, ":", Quote, "{", Quote, "}">>,
      <<"{", " ", Quote, "a", Quote, " ", ":", " ", "[", "1", ",", "n", "u", "l", "l", "]", "\n", "}">>,
      <<"{", Quote, "a", Quote, ":", Quote>> \o Fence \o <<Quote, "}">> }

OtherBodies ==
    { <<"[", "1", "]">>, <<"1">>, <<"-", "4", "5">>, <<"1", ".", "5">>,
      <<Quote, "a", Quote>>, <<"n", "u", "l", "l">>, <<"t", "r", "u", "e">>,
      <<"[">> \o ObjA1 \o <<"]">>,
      << >>, <<"a">>, <<"}", "{">>, <<"{", "a", "}">>,
      <<"{", Quote, "a", Quote, ":", "1">>,
      <<"{", Quote, "a", Quote, ":", "1", ",", "}">>,
      ObjA1 \o <<"}">>,
      ObjA1 \o ObjB2,
      ObjA1 \o <<" ", "a", " ">> \o ObjB2 }

Bodies == ObjectBodies \cup OtherBodies

BraceAlphabet == {"{", "}", "[", "]", Quote, ":", "1", "a"}

ShortStrings == UNION {[1..n -> BraceAlphabet] : n \in 0..MaxLen}

MakeParts(lead, opener, left, body, right, closer, trail) ==
    [lead |-> lead, opener |-> opener, left |-> left, body |-> body,
     right |-> right, closer |-> closer, trail |-> trail]

Whole(body) == MakeParts(<< >>, << >>, << >>, body, << >>, << >>, << >>)

Join(p) == p.lead \o p.opener \o p.left \o p.body \o p.right \o p.closer \o p.trail

PartsSet ==
    {MakeParts(p[1], o, p[2], b, p[3], c, p[4]) :
        p \in Pads \X Pads \X Pads \X Pads, o \in Openers, b \in Bodies, c \in Closers}
    \cup {Whole(b) : b \in ShortStrings}

\* arguments that are no str: an already parsed dict, and None
OtherArgs == {PyDict(<<"a">> :> PyInt(1)), PyNone}

InitExtract ==
    /\ \/ /\ parts \in PartsSet
          /\ text = PyStr(Join(parts))
       \/ /\ parts = Whole(<< >>)
          /\ text \in OtherArgs
    /\ parsed = NotCalled
    /\ ClampUnused /\ LegUnused /\ OfferUnused /\ MainUnused /\ DisplayUnused

\* the call parse_itinerary_json(text)
ParseItineraryJson ==
    /\ parsed = NotCalled
    /\ parsed' = parse_itinerary_json(text)
    /\ UNCHANGED <<parts, text, clampVars, legVars, offerVars, mainVars, displayVars>>

NextExtract == ParseItineraryJson

SpecExtract == InitExtract /\ [][NextExtract]_vars

-----------------------------------------------------------------------------
(* Claims about parse_itinerary_json, under SpecExtract *)

Called == parsed # NotCalled

IsObjectText(s) == json_loads(s).exc = "none" /\ json_loads(s).val.t = "dict"

\* C1: parse_itinerary_json returns without raising and what it returns is a
\* mapping, whatever the text
C1_AlwaysMapping ==
    Called => parsed.exc = "none" /\ parsed.val.t = "dict"

\* the text is the object alone, or the object between a leading fence (with
\* or without json) and a trailing fence; whitespace may surround each piece
BareOrFenced ==
    \/ parts.opener = << >> /\ parts.closer = << >>
    \/ parts.opener \in {Fence, FenceJson} /\ parts.closer = Fence

\* C2: a well-formed JSON object, bare or fenced, comes back as exactly the
\* object the strict parse of the unwrapped text gives
C2_WellFormedObject ==
    (Called /\ text.t = "str" /\ BareOrFenced /\ IsObjectText(parts.body))
        => parsed = json_loads(parts.body)

C2_Witness ==
    /\ Called
    /\ parts.opener = FenceJson /\ parts.closer = Fence
    /\ parts.left = Pad(1) /\ parts.trail = Pad(1)
    /\ parts.body = <<"{", Quote, "a", Quote, ":">> \o ObjB2 \o <<"}">>
    /\ parsed = Return(PyDict(<<"a">> :> PyDict(<<"b">> :> PyInt(2))))

FirstIndex(s, c) == CHOOSE i \in 1..Len(s) : s[i] = c /\ \A k \in 1..(i - 1) : s[k] # c
LastIndex(s, c) == CHOOSE i \in 1..Len(s) : s[i] = c /\ \A k \in (i + 1)..Len(s) : s[k] # c
Has(s, c) == \E i \in 1..Len(s) : s[i] = c

\* the original text has a "{" and, after its first "{", a "}"
HasBraceSpan(s) == Has(s, "{") /\ Has(s, "}") /\ FirstIndex(s, "{") < LastIndex(s, "}")

\* from the first "{" of the original text through its last "}"
BraceSpan(s) == SubSeq(s, FirstIndex(s, "{"), LastIndex(s, "}"))

Surroundings == parts.lead \o parts.opener \o parts.left \o parts.right \o parts.closer \o parts.trail

\* C3: when the strict parse of the fence-stripped text fails, the result is
\* the parse of the original text's span from its first "{" through its last
\* "}", and the empty mapping if there is no span or it does not parse; so an
\* object inside brace-free prose comes back as that object
C3_SingleFallback ==
    (Called /\ text.t = "str" /\ json_loads(strip_fences(text.v)).exc # "none")
        => /\ parsed = IF HasBraceSpan(text.v) /\ json_loads(BraceSpan(text.v)).exc = "none"
                       THEN json_loads(BraceSpan(text.v))
                       ELSE Return(EmptyDict)
           /\ (IsObjectText(parts.body) /\ ~Has(Surroundings, "{") /\ ~Has(Surroundings, "}"))
                  => parsed = json_loads(parts.body)

C3_Witness ==
    /\ Called
    /\ parts.opener = <<"a", ":">> /\ parts.closer = <<"a">>
    /\ parts.body = <<"{", Quote, "a", Quote, ":">> \o ObjB2 \o <<"}">>
    /\ json_loads(strip_fences(text.v)).exc = "JSONDecodeError"
    /\ parsed = Return(PyDict(<<"a">> :> PyDict(<<"b">> :> PyInt(2))))

-----------------------------------------------------------------------------
(* src/utils.clamp_days.  Python's min and max return one of their         *)
(* arguments, the first of those that tie; bool is a subclass of int and   *)
(* counts as 0 or 1.                                                       *)

DefaultMinDays == 1
DefaultMaxDays == 30

Number(x) == IF x.t = "bool" THEN (IF x.v THEN 1 ELSE 0) ELSE x.v

\* min(a, b)
py_min(a, b) == IF Number(b) < Number(a) THEN b ELSE a

\* max(a, b)
py_max(a, b) == IF Number(b) > Number(a) THEN b ELSE a

\* clamp_days with min and max exchanged
clamp_days_swapped(num_days_, min_days, max_days) ==
    py_min(min_days, py_max(max_days, num_days_))

clamp_days(num_days_, min_days, max_days) ==
    py_max(min_days, py_min(max_days, num_days_))

\* clamp_days(n): both bounds left at their defaults
clamp_days_default(n) == clamp_days(n, PyInt(DefaultMinDays), PyInt(DefaultMaxDays))

\* isinstance(x, int)
isinstance_int(x) == x.t \in {"int", "bool"}

MaxInput == 60

InitClamp ==
    /\ num_days \in {PyInt(n) : n \in (-MaxInput)..MaxInput} \cup {PyBool(TRUE), PyBool(FALSE)}
    /\ clamped = NotCalled
    /\ ExtractUnused /\ LegUnused /\ OfferUnused /\ MainUnused /\ DisplayUnused

\* the call clamp_days(num_days)
ClampDays ==
    /\ clamped = NotCalled
    /\ clamped' = clamp_days_default(num_days)
    /\ UNCHANGED <<extractVars, num_days, legVars, offerVars, mainVars, displayVars>>

NextClamp == ClampDays

SpecClamp == InitClamp /\ [][NextClamp]_vars

\* C5: clamp_days(n) is 1 below 1, 30 above 30 and n in between, and clamping
\* the result again changes nothing
C5_ClampDays ==
    (clamped # NotCalled /\ num_days.t = "int")
        => /\ clamped = PyInt(IF num_days.v < 1 THEN 1
                              ELSE IF num_days.v > 30 THEN 30 ELSE num_days.v)
           /\ clamp_days_default(clamped) = clamped

C5_Witness ==
    \/ num_days = PyInt(31) /\ clamped = PyInt(30)
    \/ num_days = PyInt(0) /\ clamped = PyInt(1)

-----------------------------------------------------------------------------
(* dict and truth-value operations *)

\* d.get(key, default) on a dict d
dict_get(d, key, default) == IF key \in DOMAIN d.v THEN d.v[key] ELSE default

\* bool(x), as "if x" and "not x" take it
Truthy(x) ==
    CASE x.t = "none" -> FALSE
      [] x.t = "bool" -> x.v
      [] x.t = "int" -> x.v # 0
      [] x.t = "dict" -> DOMAIN x.v # {}
      [] OTHER -> Len(x.v) > 0

\* list(a_set): the elements in an order the language does not fix
ListOfSet(elems) == [t |-> "list_in_any_order", v |-> elems]

-----------------------------------------------------------------------------
(* streamlit_app.parse_itinerary and parse_flight_offer *)

K_price == <<"p", "r", "i", "c", "e">>
K_total == <<"t", "o", "t", "a", "l">>
K_currency == <<"c", "u", "r", "r", "e", "n", "c", "y">>
K_itineraries == <<"i", "t", "i", "n", "e", "r", "a", "r", "i", "e", "s">>
K_outbound == <<"o", "u", "t", "b", "o", "u", "n", "d">>
K_return == <<"r", "e", "t", "u", "r", "n">>
K_raw == <<"r", "a", "w">>
K_segments == <<"s", "e", "g", "m", "e", "n", "t", "s">>
K_departure == <<"d", "e", "p", "a", "r", "t", "u", "r", "e">>
K_arrival == <<"a", "r", "r", "i", "v", "a", "l">>
K_duration == <<"d", "u", "r", "a", "t", "i", "o", "n">>
K_carrierCode == <<"c", "a", "r", "r", "i", "e", "r", "C", "o", "d", "e">>
K_number == <<"n", "u", "m", "b", "e", "r">>
K_iataCode == <<"i", "a", "t", "a", "C", "o", "d", "e">>
K_at == <<"a", "t">>
K_departure_airport ==
    <<"d", "e", "p", "a", "r", "t", "u", "r", "e", "_", "a", "i", "r", "p",
      "o", "r", "t">>
K_departure_time ==
    <<"d", "e", "p", "a", "r", "t", "u", "r", "e", "_", "t", "i", "m", "e">>
K_arrival_airport ==
    <<"a", "r", "r", "i", "v", "a", "l", "_", "a", "i", "r", "p", "o", "r",
      "t">>
K_arrival_time ==
    <<"a", "r", "r", "i", "v", "a", "l", "_", "t", "i", "m", "e">>
K_stops == <<"s", "t", "o", "p", "s">>
K_carriers == <<"c", "a", "r", "r", "i", "e", "r", "s">>

\* line 85 with segments[0] for segments[-1]
last_segment_first(segments) == segments.v[1]

\* line 85: last_seg = segments[-1]
last_segment(segments) == segments.v[Len(segments.v)]

\* lines 97-101: the distinct non-empty carrier codes
carrier_codes(segments) ==
    {carrier \in {dict_get(segments.v[i], K_carrierCode, PyStr(<< >>)) :
                     i \in 1..Len(segments.v)} : Truthy(carrier)}

\* .get called on a value that is no dict raises AttributeError; subscripting
\* a value that is no list raises (the inputs here hold None at most)
parse_itinerary(itin) ==
    IF itin.t # "dict" THEN Raise("AttributeError")
    ELSE LET segments == dict_get(itin, K_segments, PyList(<< >>))
         IN  IF ~Truthy(segments) THEN Return(EmptyDict)
             ELSE IF segments.t # "list" THEN Raise("TypeError")
             ELSE LET first_seg == segments.v[1]
                      last_seg == last_segment(segments)
                      departure == dict_get(first_seg, K_departure, EmptyDict)
                      arrival == dict_get(last_seg, K_arrival, EmptyDict)
                      duration == dict_get(itin, K_duration, PyStr(<< >>))
                      stops == Len(segments.v) - 1
                  IN  IF \E i \in 1..Len(segments.v) : segments.v[i].t # "dict"
                      THEN Raise("AttributeError")
                      ELSE IF departure.t # "dict" \/ arrival.t # "dict"
                      THEN Raise("AttributeError")
                      ELSE Return(PyDict(
                          (K_departure_airport :> dict_get(departure, K_iataCode, PyStr(<< >>)))
                          @@ (K_departure_time :> dict_get(departure, K_at, PyStr(<< >>)))
                          @@ (K_arrival_airport :> dict_get(arrival, K_iataCode, PyStr(<< >>)))
                          @@ (K_arrival_time :> dict_get(arrival, K_at, PyStr(<< >>)))
                          @@ (K_duration :> duration)
                          @@ (K_stops :> PyInt(stops))
                          @@ (K_carriers :> ListOfSet(carrier_codes(segments)))
                          @@ (K_segments :> segments)))

NA == <<"N", "/", "A">>
USD == <<"U", "S", "D">>
EUR == <<"E", "U", "R">>
SFO == <<"S", "F", "O">>
ORD == <<"O", "R", "D">>
CDG == <<"C", "D", "G">>
UA == <<"U", "A">>
AF == <<"A", "F">>
PT2H == <<"P", "T", "2", "H">>
Amount == <<"2", "5", "0", ".", "0", "0">>
Morning == <<"0", "9", ":", "0", "0">>
Noon == <<"1", "2", ":", "0", "0">>
Evening == <<"1", "8", ":", "0", "0">>

\* line 50 with offer["price"] for offer.get("price", {})
offer_price_subscript(o) ==
    IF K_price \in DOMAIN o.v THEN Return(o.v[K_price]) ELSE Raise("KeyError")

\* line 50: price = offer.get("price", {})
offer_price(o) == Return(dict_get(o, K_price, EmptyDict))

\* lines 66-67 with itineraries[-1] for itineraries[1]
return_flight_last(itineraries) ==
    IF Len(itineraries.v) > 1
    THEN parse_itinerary(itineraries.v[Len(itineraries.v)])
    ELSE Return(PyNone)

\* lines 59, 66-67: the return leg, None unless there is a second itinerary
return_flight_of(itineraries) ==
    IF Len(itineraries.v) > 1 THEN parse_itinerary(itineraries.v[2]) ELSE Return(PyNone)

parse_flight_offer(o) ==
    IF o.t # "dict" THEN Raise("AttributeError")
    ELSE IF offer_price(o).exc # "none" THEN offer_price(o)
    ELSE IF offer_price(o).val.t # "dict" THEN Raise("AttributeError")
    ELSE LET price == offer_price(o).val
             total_price == dict_get(price, K_total, PyStr(NA))
             currency == dict_get(price, K_currency, PyStr(USD))
             itineraries == dict_get(o, K_itineraries, PyList(<< >>))
         IN  IF ~Truthy(itineraries)
             THEN Return(PyDict((K_price :> total_price) @@ (K_currency :> currency)
                                @@ (K_outbound :> PyNone) @@ (K_return :> PyNone)))
             ELSE IF itineraries.t # "list" THEN Raise("TypeError")
             ELSE LET outbound == parse_itinerary(itineraries.v[1])
                      return_flight == return_flight_of(itineraries)
                  IN  IF outbound.exc # "none" THEN outbound
                      ELSE IF return_flight.exc # "none" THEN return_flight
                      ELSE Return(PyDict((K_price :> total_price) @@ (K_currency :> currency)
                                         @@ (K_outbound :> outbound.val)
                                         @@ (K_return :> return_flight.val)
                                         @@ (K_raw :> o)))

-----------------------------------------------------------------------------
(* The normaliser's inputs: provider records with fields present, absent   *)
(* or, against the provider's contract, null.                              *)

MaxSegments == 3
MaxItineraries == 3

Place(code, time) == PyDict((K_iataCode :> PyStr(code)) @@ (K_at :> PyStr(time)))

Segment(departure, arrival, carrier) ==
    PyDict((K_departure :> departure) @@ (K_arrival :> arrival)
           @@ (K_carrierCode :> PyStr(carrier)))

SegSfoOrd == Segment(Place(SFO, Morning), Place(ORD, Noon), UA)
SegOrdCdg == Segment(Place(ORD, Noon), Place(CDG, Evening), AF)
SegCdgSfo == Segment(Place(CDG, Evening), Place(SFO, Morning), UA)
SegNoDeparture == PyDict((K_arrival :> Place(CDG, Evening)) @@ (K_carrierCode :> PyStr(AF)))
SegNoArrival == PyDict((K_departure :> Place(SFO, Morning)) @@ (K_carrierCode :> PyStr(UA)))
SegPartial ==
    PyDict((K_departure :> PyDict(K_iataCode :> PyStr(SFO)))
           @@ (K_arrival :> PyDict(K_at :> PyStr(Noon)))
           @@ (K_carrierCode :> PyStr(<< >>)))
SegNullDeparture == PyDict((K_departure :> PyNone) @@ (K_arrival :> Place(CDG, Evening)))

Segments ==
    {SegSfoOrd, SegOrdCdg, SegCdgSfo, SegNoDeparture, SegNoArrival, EmptyDict,
     SegPartial, SegNullDeparture}

SegmentLists == UNION {[1..n -> Segments] : n \in 0..MaxSegments}

\* an itinerary record: segments and duration each present or absent
Itinerary(segments, duration) ==
    PyDict([k \in {key \in {K_segments, K_duration} :
                      \/ key = K_segments /\ segments # Unused
                      \/ key = K_duration /\ duration # Unused}
              |-> IF k = K_segments THEN segments ELSE duration])

Flights ==
    {Itinerary(segments, duration) :
        segments \in {PyList(l) : l \in SegmentLists} \cup {Unused, PyNone},
        duration \in {Unused, PyStr(PT2H)}}
    \cup {PyNone}

InitLeg ==
    /\ flight \in Flights
    /\ leg = NotCalled
    /\ ExtractUnused /\ ClampUnused /\ OfferUnused /\ MainUnused /\ DisplayUnused

\* the call parse_itinerary(flight)
ParseItinerary ==
    /\ leg = NotCalled
    /\ leg' = parse_itinerary(flight)
    /\ UNCHANGED <<extractVars, clampVars, flight, offerVars, mainVars, displayVars>>

NextLeg == ParseItinerary

SpecLeg == InitLeg /\ [][NextLeg]_vars

Prices ==
    {Unused, PyNone, EmptyDict,
     PyDict(K_total :> PyStr(Amount)),
     PyDict(K_currency :> PyStr(EUR)),
     PyDict((K_total :> PyStr(Amount)) @@ (K_currency :> PyStr(EUR)))}

OfferItineraries ==
    {EmptyDict,
     Itinerary(PyList(<< >>), PyStr(PT2H)),
     Itinerary(PyList(<<SegSfoOrd>>), PyStr(PT2H)),
     Itinerary(PyList(<<SegSfoOrd, SegOrdCdg>>), PyStr(PT2H)),
     Itinerary(PyList(<<SegCdgSfo>>), Unused),
     Itinerary(PyList(<<EmptyDict, SegPartial>>), Unused),
     Itinerary(PyList(<<SegNullDeparture>>), PyStr(PT2H))}

ItineraryLists == UNION {[1..n -> OfferItineraries] : n \in 0..MaxItineraries}

\* an offer record: price and itineraries each present or absent
Offer(price, itineraries) ==
    PyDict([k \in {key \in {K_price, K_itineraries} :
                      \/ key = K_price /\ price # Unused
                      \/ key = K_itineraries /\ itineraries # Unused}
              |-> IF k = K_price THEN price ELSE itineraries])

Offers ==
    {Offer(price, itineraries) :
        price \in Prices,
        itineraries \in {PyList(l) : l \in ItineraryLists} \cup {Unused}}

InitOffer ==
    /\ offer \in Offers
    /\ normalized = NotCalled
    /\ ExtractUnused /\ ClampUnused /\ LegUnused /\ MainUnused /\ DisplayUnused

\* the call parse_flight_offer(offer)
ParseFlightOffer ==
    /\ normalized = NotCalled
    /\ normalized' = parse_flight_offer(offer)
    /\ UNCHANGED <<extractVars, clampVars, legVars, offer, mainVars, displayVars>>

\* the offer with one more itinerary after its first two
LongerOffer(o, extra) ==
    PyDict(DictSet(o.v, K_itineraries, PyList(Append(o.v[K_itineraries].v, extra))))

HasTwoItineraries(o) ==
    /\ K_itineraries \in DOMAIN o.v
    /\ Len(o.v[K_itineraries].v) >= 2

\* line 151: the next offer of the list is normalised; it is the last one with
\* one more itinerary after its first two
ParseLongerOffer ==
    /\ normalized # NotCalled
    /\ HasTwoItineraries(offer)
    /\ Len(offer.v[K_itineraries].v) <= MaxItineraries
    /\ \E extra \in OfferItineraries : offer' = LongerOffer(offer, extra)
    /\ normalized' = parse_flight_offer(offer')
    /\ UNCHANGED <<extractVars, clampVars, legVars, mainVars, displayVars>>

NextOffer == ParseFlightOffer \/ ParseLongerOffer

SpecOffer == InitOffer /\ [][NextOffer]_vars

-----------------------------------------------------------------------------
(* Claims about the normaliser, under SpecLeg and SpecOffer *)

\* every field that is present has the type the provider documents
WellTypedPlace(seg, key) == key \in DOMAIN seg.v => seg.v[key].t = "dict"

WellTypedSegment(seg) ==
    seg.t = "dict" /\ WellTypedPlace(seg, K_departure) /\ WellTypedPlace(seg, K_arrival)

WellTypedItinerary(itin) ==
    /\ itin.t = "dict"
    /\ K_segments \in DOMAIN itin.v =>
          /\ itin.v[K_segments].t = "list"
          /\ \A i \in 1..Len(itin.v[K_segments].v) : WellTypedSegment(itin.v[K_segments].v[i])

WellTypedOffer(o) ==
    /\ K_price \in DOMAIN o.v => o.v[K_price].t = "dict"
    /\ K_itineraries \in DOMAIN o.v =>
          /\ o.v[K_itineraries].t = "list"
          /\ \A i \in 1..Len(o.v[K_itineraries].v) : WellTypedItinerary(o.v[K_itineraries].v[i])

\* the segments of an itinerary, none when the key is absent
SegmentsOf(itin) == IF K_segments \in DOMAIN itin.v THEN itin.v[K_segments].v ELSE << >>

\* a field of a place of a segment, when the segment has that place and field
FieldIsCopied(seg, place, field, value) ==
    (place \in DOMAIN seg.v /\ field \in DOMAIN seg.v[place].v)
        => value = seg.v[place].v[field]

\* the leg of an itinerary with n >= 1 segments
LegOfSegments(itin, l) ==
    LET segs == SegmentsOf(itin)
        n == Len(segs)
    IN  /\ l.v[K_stops] = PyInt(n - 1)
        /\ l.v[K_stops].v >= 0
        /\ l.v[K_segments] = PyList(segs)
        /\ FieldIsCopied(segs[1], K_departure, K_iataCode, l.v[K_departure_airport])
        /\ FieldIsCopied(segs[1], K_departure, K_at, l.v[K_departure_time])
        /\ FieldIsCopied(segs[n], K_arrival, K_iataCode, l.v[K_arrival_airport])
        /\ FieldIsCopied(segs[n], K_arrival, K_at, l.v[K_arrival_time])

\* C9: a leg of n >= 1 segments has stops = n - 1, the first segment's
\* departure and the last segment's arrival, and its segments in input order;
\* zero segments give the empty leg without a stops field; no leg has
\* stops < 0
C9_LegShape ==
    (leg # NotCalled /\ WellTypedItinerary(flight))
        => /\ leg.exc = "none"
           /\ Len(SegmentsOf(flight)) >= 1 => LegOfSegments(flight, leg.val)
           /\ Len(SegmentsOf(flight)) = 0 => leg.val = EmptyDict
           /\ K_stops \in DOMAIN leg.val.v => leg.val.v[K_stops].v >= 0

C9_Witness ==
    /\ leg # NotCalled
    /\ WellTypedItinerary(flight)
    /\ SegmentsOf(flight) = <<SegSfoOrd, SegOrdCdg>>
    /\ leg.val.v[K_stops] = PyInt(1)
    /\ leg.val.v[K_departure_airport] = PyStr(SFO)
    /\ leg.val.v[K_arrival_airport] = PyStr(CDG)
    /\ leg.val.v[K_arrival_time] = PyStr(Evening)

ItinerariesOf(o) == IF K_itineraries \in DOMAIN o.v THEN o.v[K_itineraries].v ELSE << >>

\* the legs come from the first two itineraries, and one itinerary leaves the
\* return leg None
LegsFromFirstTwo ==
    (normalized # NotCalled /\ normalized.exc = "none" /\ Len(ItinerariesOf(offer)) >= 1)
        => /\ normalized.val.v[K_outbound] = parse_itinerary(ItinerariesOf(offer)[1]).val
           /\ Len(ItinerariesOf(offer)) = 1 => normalized.val.v[K_return] = PyNone
           /\ Len(ItinerariesOf(offer)) >= 2 =>
                  normalized.val.v[K_return] = parse_itinerary(ItinerariesOf(offer)[2]).val

\* the two outcomes agree, but for the raw field of a returned offer
SameButRaw(a, b) ==
    /\ a.exc = b.exc
    /\ a.exc = "none" =>
          /\ DOMAIN a.val.v = DOMAIN b.val.v
          /\ \A k \in DOMAIN a.val.v \ {K_raw} : a.val.v[k] = b.val.v[k]

\* C8 as stated: the legs come from itineraries[0] and itineraries[1], one
\* itinerary leaves the return leg None, and itineraries from index 2 on have
\* no influence on the result
C8_ExtraItinerariesIgnored ==
    /\ []LegsFromFirstTwo
    /\ [][ParseLongerOffer => normalized' = normalized]_vars

\* C8 as amended: itineraries from index 2 on have no influence on the
\* result's price, currency, outbound and return; they do show in its raw
\* field, which is the offer itself
C8_ExtraItinerariesOnlyInRaw ==
    /\ []LegsFromFirstTwo
    /\ [](normalized # NotCalled /\ normalized.exc = "none" /\ K_raw \in DOMAIN normalized.val.v
             => normalized.val.v[K_raw] = offer)
    /\ [][ParseLongerOffer => SameButRaw(normalized, normalized')]_vars

C8_Witness ==
    /\ normalized # NotCalled /\ normalized.exc = "none"
    /\ Len(ItinerariesOf(offer)) = 3
    /\ ItinerariesOf(offer)[2] = Itinerary(PyList(<<SegSfoOrd, SegOrdCdg>>), PyStr(PT2H))
    /\ ItinerariesOf(offer)[3] = Itinerary(PyList(<<SegCdgSfo>>), Unused)
    /\ normalized.val.v[K_return].v[K_stops] = PyInt(1)
    /\ normalized.val.v[K_raw] = offer

\* an absent place leaves both of its fields empty strings, an absent field
\* leaves that field's
AbsentIsEmpty(seg, place, field, value) ==
    (place \notin DOMAIN seg.v \/ field \notin DOMAIN seg.v[place].v)
        => value = PyStr(<< >>)

DefaultsInLeg(itin, l) ==
    LET segs == SegmentsOf(itin)
    IN  IF Len(segs) = 0 THEN l = EmptyDict
        ELSE /\ AbsentIsEmpty(segs[1], K_departure, K_iataCode, l.v[K_departure_airport])
             /\ AbsentIsEmpty(segs[1], K_departure, K_at, l.v[K_departure_time])
             /\ AbsentIsEmpty(segs[Len(segs)], K_arrival, K_iataCode, l.v[K_arrival_airport])
             /\ AbsentIsEmpty(segs[Len(segs)], K_arrival, K_at, l.v[K_arrival_time])

\* C10: with price, total, currency, itineraries, segments, departure, arrival
\* or carrierCode absent, parse_flight_offer returns; the price is "N/A" and
\* the currency "USD" when absent, absent airports and times are ""
C10_AbsentFieldsDefault ==
    (normalized # NotCalled /\ WellTypedOffer(offer))
        => /\ normalized.exc = "none"
           /\ (K_price \notin DOMAIN offer.v \/ K_total \notin DOMAIN offer.v[K_price].v)
                  => normalized.val.v[K_price] = PyStr(NA)
           /\ (K_price \notin DOMAIN offer.v \/ K_currency \notin DOMAIN offer.v[K_price].v)
                  => normalized.val.v[K_currency] = PyStr(USD)
           /\ Len(ItinerariesOf(offer)) = 0 => normalized.val.v[K_outbound] = PyNone
           /\ Len(ItinerariesOf(offer)) >= 1 =>
                  DefaultsInLeg(ItinerariesOf(offer)[1], normalized.val.v[K_outbound])
           /\ Len(ItinerariesOf(offer)) >= 2 =>
                  DefaultsInLeg(ItinerariesOf(offer)[2], normalized.val.v[K_return])

C10_Witness ==
    /\ normalized # NotCalled /\ normalized.exc = "none"
    /\ K_price \notin DOMAIN offer.v
    /\ ItinerariesOf(offer) = <<Itinerary(PyList(<<EmptyDict, SegPartial>>), Unused)>>
    /\ normalized.val.v[K_price] = PyStr(NA)
    /\ normalized.val.v[K_currency] = PyStr(USD)
    /\ normalized.val.v[K_outbound].v[K_departure_airport] = PyStr(<< >>)
    /\ normalized.val.v[K_outbound].v[K_arrival_airport] = PyStr(<< >>)
    /\ normalized.val.v[K_outbound].v[K_arrival_time] = PyStr(Noon)
    /\ normalized.val.v[K_outbound].v[K_duration] = PyStr(<< >>)

-----------------------------------------------------------------------------
(* Text of the prompts and of the settings' defaults *)

K_destination == <<"d", "e", "s", "t", "i", "n", "a", "t", "i", "o", "n">>
K_total_days == <<"t", "o", "t", "a", "l", "_", "d", "a", "y", "s">>
StartDate == <<"2", "0", "2", "5", "-", "0", "6", "-", "0", "1">>
EndDate == <<"2", "0", "2", "5", "-", "0", "6", "-", "0", "8">>
Moderate == <<"m", "o", "d", "e", "r", "a", "t", "e">>
Balanced == <<"b", "a", "l", "a", "n", "c", "e", "d">>
Food == <<"f", "o", "o", "d">>
History == <<"h", "i", "s", "t", "o", "r", "y">>
GrokModel ==
    <<"g", "r", "o", "k", "-", "2", "-", "l", "a", "t", "e", "s", "t">>
GeminiModel ==
    <<"g", "e", "m", "i", "n", "i", "-", "1", ".", "5", "-", "p", "r", "o">>
GeminiFallbackModel ==
    <<"g", "e", "m", "i", "n", "i", "-", "2", ".", "5", "-", "f", "l", "a",
      "s", "h">>
HfRepo ==
    <<"g", "o", "o", "g", "l", "e", "/", "g", "e", "m", "m", "a", "-", "2",
      "-", "2", "b", "-", "i", "t">>
GrokKey == <<"x", "a", "i", "-", "1">>
HfToken == <<"h", "f", "_", "1">>
GeminiKey == <<"A", "I", "z", "a", "1">>
GeminiEnvKey == <<"A", "I", "z", "a", "2">>
AmadeusKey == <<"a", "m", "a", "-", "1">>
AmadeusSecret == <<"s", "e", "c", "-", "1">>
EmptyObjectText == <<"{", "}">>
ITINERARY_SCHEMA_HINT ==
    <<"R", "e", "t", "u", "r", "n", " ", "s", "t", "r", "i", "c", "t", " ",
      "J", "S", "O", "N", " ", "w", "i", "t", "h", " ", "k", "e", "y", "s",
      ":", " ", "d", "e", "s", "t", "i", "n", "a", "t", "i", "o", "n", ",",
      " ", "t", "o", "t", "a", "l", "_", "d", "a", "y", "s", ",", " ", "d",
      "a", "i", "l", "y", "_", "p", "l", "a", "n", " ", "(", "a", "r", "r",
      "a", "y", " ", "o", "f", " ", "{", "d", "a", "y", ",", " ", "s", "u",
      "m", "m", "a", "r", "y", ",", " ", "a", "c", "t", "i", "v", "i", "t",
      "i", "e", "s", "}", ")", ",", " ", "e", "s", "t", "i", "m", "a", "t",
      "e", "d", "_", "c", "o", "s", "t", " ", "(", "o", "b", "j", "e", "c",
      "t", " ", "w", "i", "t", "h", " ", "c", "u", "r", "r", "e", "n", "c",
      "y", " ", "a", "n", "d", " ", "t", "o", "t", "a", "l", ")", ",", " ",
      "t", "i", "p", "s", " ", "(", "a", "r", "r", "a", "y", " ", "o", "f",
      " ", "s", "t", "r", "i", "n", "g", "s", ")", ".">>
SystemHead ==
    <<"Y", "o", "u", " ", "a", "r", "e", " ", "a", "n", " ", "e", "x", "p",
      "e", "r", "t", " ", "t", "r", "a", "v", "e", "l", " ", "p", "l", "a",
      "n", "n", "e", "r", ".", " ", "C", "r", "e", "a", "t", "e", " ", "p",
      "r", "a", "c", "t", "i", "c", "a", "l", ",", " ", "l", "o", "c", "a",
      "l", "-", "s", "a", "v", "v", "y", " ", "i", "t", "i", "n", "e", "r",
      "a", "r", "i", "e", "s", ".", " ", "U", "s", "e", " ", "r", "e", "a",
      "l", "i", "s", "t", "i", "c", " ", "t", "r", "a", "v", "e", "l", " ",
      "t", "i", "m", "e", "s", ",", " ", "c", "l", "u", "s", "t", "e", "r",
      " ", "n", "e", "a", "r", "b", "y", " ", "a", "c", "t", "i", "v", "i",
      "t", "i", "e", "s", ",", " ", "a", "n", "d", " ", "b", "a", "l", "a",
      "n", "c", "e", " ", "m", "o", "r", "n", "i", "n", "g", "s", "/", "a",
      "f", "t", "e", "r", "n", "o", "o", "n", "s", "/", "e", "v", "e", "n",
      "i", "n", "g", "s", ".", " ", "O", "u", "t", "p", "u", "t", " ", "c",
      "u", "r", "r", "e", "n", "c", "y", ":", " ">>
HumanHead ==
    <<"P", "l", "a", "n", " ", "a", " ", "t", "r", "i", "p", " ", "w", "i",
      "t", "h", " ", "t", "h", "e", "s", "e", " ", "d", "e", "t", "a", "i",
      "l", "s", ":", "\n", "-", " ", "O", "r", "i", "g", "i", "n", ":", " ">>
HumanDestination ==
    <<"\n", "-", " ", "D", "e", "s", "t", "i", "n", "a", "t", "i", "o", "n",
      ":", " ">>
HumanDates == <<"\n", "-", " ", "D", "a", "t", "e", "s", ":", " ">>
HumanTo == <<" ", "t", "o", " ">>
HumanTravelers ==
    <<"\n", "-", " ", "T", "r", "a", "v", "e", "l", "e", "r", "s", ":", " ">>
HumanBudget == <<"\n", "-", " ", "B", "u", "d", "g", "e", "t", ":", " ">>
HumanInterests ==
    <<"\n", "-", " ", "I", "n", "t", "e", "r", "e", "s", "t", "s", ":", " ">>
HumanPace ==
    <<"\n", "-", " ", "P", "r", "e", "f", "e", "r", "r", "e", "d", " ", "p",
      "a", "c", "e", ":", " ">>
HumanTail ==
    <<"\n", "R", "e", "t", "u", "r", "n", " ", "o", "n", "l", "y", " ", "J",
      "S", "O", "N", ".">>
JsonPromptHead ==
    <<"R", "e", "t", "u", "r", "n", " ", "o", "n", "l", "y", " ", "J", "S",
      "O", "N", " ", "w", "i", "t", "h", " ", "k", "e", "y", "s", ":", " ",
      "d", "e", "s", "t", "i", "n", "a", "t", "i", "o", "n", ",", " ", "t",
      "o", "t", "a", "l", "_", "d", "a", "y", "s", ",", " ", "d", "a", "i",
      "l", "y", "_", "p", "l", "a", "n", " ", "(", "a", "r", "r", "a", "y",
      " ", "o", "f", " ", "{", "d", "a", "y", ",", " ", "s", "u", "m", "m",
      "a", "r", "y", ",", " ", "a", "c", "t", "i", "v", "i", "t", "i", "e",
      "s", "}", ")", ",", " ", "e", "s", "t", "i", "m", "a", "t", "e", "d",
      "_", "c", "o", "s", "t", " ", "(", "o", "b", "j", "e", "c", "t", " ",
      "w", "i", "t", "h", " ", "c", "u", "r", "r", "e", "n", "c", "y", " ",
      "a", "n", "d", " ", "t", "o", "t", "a", "l", ")", ",", " ", "t", "i",
      "p", "s", " ", "(", "a", "r", "r", "a", "y", " ", "o", "f", " ", "s",
      "t", "r", "i", "n", "g", "s", ")", ".", " ", "D", "e", "s", "t", "i",
      "n", "a", "t", "i", "o", "n", ":", " ">>
JsonPromptDates == <<".", " ", "D", "a", "t", "e", "s", ":", " ">>
JsonPromptTo == <<" ", "t", "o", " ">>
JsonPromptTravelers ==
    <<".", " ", "T", "r", "a", "v", "e", "l", "e", "r", "s", ":", " ">>
JsonPromptBudget == <<".", " ", "B", "u", "d", "g", "e", "t", ":", " ">>
JsonPromptInterests ==
    <<".", " ", "I", "n", "t", "e", "r", "e", "s", "t", "s", ":", " ">>
JsonPromptPace ==
    <<".", " ", "P", "r", "e", "f", "e", "r", "r", "e", "d", " ", "p", "a",
      "c", "e", ":", " ">>
JsonPromptCurrency ==
    <<".", " ", "O", "u", "t", "p", "u", "t", " ", "c", "u", "r", "r", "e",
      "n", "c", "y", ":", " ">>

-----------------------------------------------------------------------------
(* str formatting *)

DigitChar(d) ==
    CASE d = 0 -> "0" [] d = 1 -> "1" [] d = 2 -> "2" [] d = 3 -> "3" [] d = 4 -> "4"
      [] d = 5 -> "5" [] d = 6 -> "6" [] d = 7 -> "7" [] d = 8 -> "8" [] d = 9 -> "9"

\* str(n) of an int n >= 0, as an f-string formats it
RECURSIVE IntToChars(_)
IntToChars(n) ==
    IF n < 10 THEN <<DigitChar(n)>> ELSE IntToChars(n \div 10) \o <<DigitChar(n % 10)>>

\* ', '.join(items)
RECURSIVE join_comma(_)
join_comma(items) ==
    IF Len(items) = 0 THEN << >>
    ELSE IF Len(items) = 1 THEN items[1]
    ELSE items[1] \o <<",", " ">> \o join_comma(Tail(items))

\* "".join(items)
RECURSIVE join_empty(_)
join_empty(items) ==
    IF Len(items) = 0 THEN << >> ELSE items[1] \o join_empty(Tail(items))

\* s.strip(chars)
RECURSIVE strip_chars(_, _)
strip_chars(s, chars) ==
    IF Len(s) > 0 /\ s[1] \in chars THEN strip_chars(Tail(s), chars)
    ELSE IF Len(s) > 0 /\ s[Len(s)] \in chars THEN strip_chars(SubSeq(s, 1, Len(s) - 1), chars)
    ELSE s

\* word in s, for str
Contains(s, word) ==
    \E i \in 1..(Len(s) - Len(word) + 1) : SubSeq(s, i, i + Len(word) - 1) = word

-----------------------------------------------------------------------------
(* src/itinerary_graph.planner_node, the Grok path of the generation action *)

\* Settings.default_currency when DEFAULT_CURRENCY is not set
default_currency == USD

\* lines 52-58: the system message
system_content(req) ==
    SystemHead
    \o (IF Len(req.currency) > 0 THEN req.currency ELSE default_currency)
    \o <<".", " ">> \o ITINERARY_SCHEMA_HINT

\* lines 60-72: the human message
human_content(req) ==
    HumanHead \o req.origin
    \o HumanDestination \o req.destination
    \o HumanDates \o req.start_date \o HumanTo \o req.end_date
    \o HumanTravelers \o IntToChars(req.travelers)
    \o HumanBudget \o req.budget
    \o HumanInterests \o join_comma(req.interests)
    \o HumanPace \o req.pace
    \o HumanTail

\* lines 74-82: the chat completion request
grok_call(req) ==
    [to |-> "grok", model |-> GrokModel, system |-> system_content(req),
     prompt |-> human_content(req)]

\* JsonOutputParser().parse on the text of a JSON value: that value; anything
\* else does not parse
JsonOutputParser_parse(s) ==
    LET loaded == json_loads(s)
    IN  IF loaded.exc = "none" THEN loaded ELSE Raise("OutputParserException")

\* lines 90-91: clamp total_days if present and an int
clamp_total_days(itin) ==
    IF itin.t = "dict" /\ K_total_days \in DOMAIN itin.v /\ isinstance_int(itin.v[K_total_days])
    THEN PyDict(DictSet(itin.v, K_total_days, clamp_days_default(itin.v[K_total_days])))
    ELSE itin

\* line 85: message.content or "{}"; message_content is a str or None
planner_content(message_content) ==
    IF Truthy(message_content) THEN message_content.v ELSE EmptyObjectText

\* lines 88-93: from what the parser made of the content to the node's
\* itinerary
planner_node_result(parsed_) ==
    IF parsed_.exc # "none" THEN parsed_ ELSE Return(clamp_total_days(parsed_.val))

-----------------------------------------------------------------------------
(* streamlit_app.display_formatted_itinerary, as far as it can fail *)

\* total_days > 1 is evaluated when total_days is truthy
display_formatted_itinerary(itin) ==
    IF ~Truthy(itin) THEN Return(PyNone)
    ELSE IF itin.t # "dict" THEN Raise("AttributeError")
    ELSE IF K_total_days \in DOMAIN itin.v /\ Truthy(itin.v[K_total_days])
            /\ itin.v[K_total_days].t \notin {"int", "bool", "float"}
    THEN Raise("TypeError")
    ELSE Return(PyNone)

-----------------------------------------------------------------------------
(* streamlit_app.display_flight_offers: normalise, filter, sort, display *)

\* lines 157 and 160: the options of the two select boxes, the first one
\* selected by default
AnyStops == "Any"
TwoPlus == "2+"
MaxStopsOptions == {AnyStops, "0", "1", TwoPlus}
PriceLowToHigh == "Price (Low to High)"
PriceHighToLow == "Price (High to Low)"
DurationShortest == "Duration (Shortest)"
DepartureTime == "Departure Time"
SortOptions == {PriceLowToHigh, PriceHighToLow, DurationShortest, DepartureTime}

\* lines 168-169: the stops of a leg that has none
MissingStops == 999

\* line 151: [parse_flight_offer(offer) for offer in offers]; the first
\* exception ends the comprehension
RECURSIVE parse_offers(_)
parse_offers(list) ==
    LET first == parse_flight_offer(list[1])
        rest == parse_offers(Tail(list))
    IN  IF Len(list) = 0 THEN Return(<< >>)
        ELSE IF first.exc # "none" THEN first
        ELSE IF rest.exc # "none" THEN rest
        ELSE Return(<<first.val>> \o rest.val)

\* line 165: int(max_stops) if max_stops != "2+" else 2
max_stops_int(selection) ==
    IF selection = TwoPlus THEN 2 ELSE IF selection = "1" THEN 1 ELSE 0

\* x.get("stops", 999) <= max_stops_int on what offer.get(key, {}) gave:
\* None has no get
stops_within(leg_, ceiling) ==
    IF leg_.t # "dict" THEN Raise("AttributeError")
    ELSE Return(dict_get(leg_, K_stops, PyInt(MissingStops)).v <= ceiling)

\* line 168: offer.get("outbound", {}).get("stops", 999) <= max_stops_int
outbound_within(o, ceiling) == stops_within(dict_get(o, K_outbound, EmptyDict), ceiling)

\* line 169: not offer.get("return") or
\* offer.get("return", {}).get("stops", 999) <= max_stops_int
return_within(o, ceiling) ==
    IF ~Truthy(dict_get(o, K_return, PyNone)) THEN Return(TRUE)
    ELSE stops_within(dict_get(o, K_return, EmptyDict), ceiling)

\* lines 168-169: the condition of the comprehension; "and" evaluates its
\* right side only when the left side is true
passes_filter(o, ceiling) ==
    LET left == outbound_within(o, ceiling)
    IN  IF left.exc # "none" THEN left
        ELSE IF ~left.val THEN Return(FALSE)
        ELSE return_within(o, ceiling)

\* lines 166-170: the comprehension; the first exception ends it
RECURSIVE filter_within(_, _)
filter_within(list, ceiling) ==
    LET first == passes_filter(list[1], ceiling)
        rest == filter_within(Tail(list), ceiling)
    IN  IF Len(list) = 0 THEN Return(<< >>)
        ELSE IF first.exc # "none" THEN first
        ELSE IF rest.exc # "none" THEN rest
        ELSE Return((IF first.val THEN <<list[1]>> ELSE << >>) \o rest.val)

\* lines 163-170: the filter step
filter_step(list, selection) ==
    IF selection = AnyStops THEN Return(list) ELSE filter_within(list, max_stops_int(selection))

\* str(x) of a str, an int, a float (by its lexeme, which float() reads back
\* to the same number), None or a bool
py_str(x) ==
    CASE x.t = "str" -> x.v
      [] x.t = "int" -> IF x.v < 0 THEN <<"-">> \o IntToChars(-x.v) ELSE IntToChars(x.v)
      [] x.t = "float" -> x.v
      [] x.t = "none" -> <<"N", "o", "n", "e">>
      [] x.t = "bool" -> IF x.v THEN <<"T", "r", "u", "e">> ELSE <<"F", "a", "l", "s", "e">>

\* s.replace(",", "")
IsNotComma(c) == c # ","
replace_commas(s) == SelectSeq(s, IsNotComma)

\* 10 ** n
RECURSIVE Pow10(_)
Pow10(n) == IF n = 0 THEN 1 ELSE 10 * Pow10(n - 1)

\* a sort key: the number mantissa / 10 ** scale, or a str
NumberKey(mantissa, scale) == [t |-> "number", m |-> mantissa, k |-> scale]
StrKey(chars) == [t |-> "str", m |-> chars, k |-> 0]

\* the decimal digits[.digits] or .digits after its sign: its value, or a
\* ValueError
unsigned_float(s, sign) ==
    IF \E i \in 1..Len(s) : s[i] = "."
    THEN IF /\ SkipDigits(s, 1) <= Len(s)
            /\ s[SkipDigits(s, 1)] = "."
            /\ SkipDigits(s, SkipDigits(s, 1) + 1) = Len(s) + 1
            /\ Len(s) >= 2
         THEN Return(NumberKey(
                  sign * (DigitsValue(s, 1, SkipDigits(s, 1) - 1)
                              * Pow10(Len(s) - SkipDigits(s, 1))
                          + DigitsValue(s, SkipDigits(s, 1) + 1, Len(s))),
                  Len(s) - SkipDigits(s, 1)))
         ELSE Raise("ValueError")
    ELSE IF Len(s) >= 1 /\ SkipDigits(s, 1) = Len(s) + 1
    THEN Return(NumberKey(sign * DigitsValue(s, 1, Len(s)), 0))
    ELSE Raise("ValueError")

\* the text after surrounding whitespace is removed, with its optional sign
signed_float(s) ==
    IF Len(s) > 0 /\ s[1] = "-" THEN unsigned_float(Tail(s), -1)
    ELSE IF Len(s) > 0 /\ s[1] = "+" THEN unsigned_float(Tail(s), 1)
    ELSE unsigned_float(s, 1)

\* float(s) of a text in plain decimal notation (no exponent, underscore,
\* inf or nan, which no input here has): its value, or a ValueError
py_float(s) == signed_float(strip(s))

\* lines 174 and 176: float(str(x.get("price", 0)).replace(",", ""))
price_key(o) == py_float(replace_commas(py_str(dict_get(o, K_price, PyInt(0)))))

\* line 179: x.get("outbound", {}).get("duration", ""); None has no get
duration_of(leg_) ==
    IF leg_.t # "dict" THEN Raise("AttributeError")
    ELSE Return(StrKey(dict_get(leg_, K_duration, PyStr(<< >>)).v))

duration_key(o) == duration_of(dict_get(o, K_outbound, EmptyDict))

\* the characters of the keys in code point order
CodePoints ==
    <<" ", "+", "-", ".", "/", "0", "1", "2", "3", "4", "5", "6", "7", "8", "9", ":",
      "A", "H", "M", "N", "P", "T", "Z">>

ord(c) == CHOOSE i \in DOMAIN CodePoints : CodePoints[i] = c

\* a < b on str: at the first difference, or a is a proper prefix of b
RECURSIVE str_lt(_, _)
str_lt(a, b) ==
    IF Len(b) = 0 THEN FALSE
    ELSE IF Len(a) = 0 THEN TRUE
    ELSE IF a[1] # b[1] THEN ord(a[1]) < ord(b[1])
    ELSE str_lt(Tail(a), Tail(b))

\* a < b on two keys of the same kind
key_lt(a, b) ==
    IF a.t = "number" THEN a.m * Pow10(b.k) < b.m * Pow10(a.k) ELSE str_lt(a.m, b.m)

\* the keys of the items, computed before any comparison; the first
\* exception ends the sort.  by is PriceLowToHigh, PriceHighToLow or
\* DurationShortest
sort_key(o, by) == IF by = DurationShortest THEN duration_key(o) ELSE price_key(o)

RECURSIVE sort_keys(_, _)
sort_keys(list, by) ==
    LET first == sort_key(list[1], by)
        rest == sort_keys(Tail(list), by)
    IN  IF Len(list) = 0 THEN Return(<< >>)
        ELSE IF first.exc # "none" THEN first
        ELSE IF rest.exc # "none" THEN rest
        ELSE Return(<<first.val>> \o rest.val)

\* an unstable order: the item goes before the items equal to it
insert_before_equal(sorted_, x, key, reverse) ==
    LET later == {i \in 1..Len(sorted_) :
                     IF reverse THEN ~key_lt(key, sorted_[i].key)
                     ELSE ~key_lt(sorted_[i].key, key)}
        at == IF later = {} THEN Len(sorted_) + 1
              ELSE CHOOSE i \in later : \A j \in later : i <= j
    IN  SubSeq(sorted_, 1, at - 1) \o <<[item |-> x, key |-> key]>>
        \o SubSeq(sorted_, at, Len(sorted_))

\* sorted() is stable, reverse=True included: an item goes after the items
\* that do not come after it, the ones equal to it among them
insert_stable(sorted_, x, key, reverse) ==
    LET later == {i \in 1..Len(sorted_) :
                     IF reverse THEN key_lt(sorted_[i].key, key)
                     ELSE key_lt(key, sorted_[i].key)}
        at == IF later = {} THEN Len(sorted_) + 1
              ELSE CHOOSE i \in later : \A j \in later : i <= j
    IN  SubSeq(sorted_, 1, at - 1) \o <<[item |-> x, key |-> key]>>
        \o SubSeq(sorted_, at, Len(sorted_))

\* sorted(list, key=..., reverse=...) with the keys at hand: the items taken
\* in their order, each put in its place
RECURSIVE sorted_with(_, _, _)
sorted_with(list, keys_, reverse) ==
    IF Len(list) = 0 THEN << >>
    ELSE insert_stable(sorted_with(SubSeq(list, 1, Len(list) - 1),
                                   SubSeq(keys_, 1, Len(list) - 1), reverse),
                       list[Len(list)], keys_[Len(list)], reverse)

items_of(sorted_) == [i \in 1..Len(sorted_) |-> sorted_[i].item]

\* lines 172-179: the sort step; "Departure Time" has no branch of its own
sort_step(list, by) ==
    LET keys_ == sort_keys(list, by)
    IN  IF by = DepartureTime THEN Return(list)
        ELSE IF keys_.exc # "none" THEN keys_
        ELSE Return(items_of(sorted_with(list, keys_.val, by = PriceHighToLow)))

\* lines 142-272: the offers in display order, or the exception that ends the
\* call; the display loop (lines 182-272) shows each offer of the sorted list
\* and raises nothing on normalised offers
Display(list, selection, by) ==
    /\ parsed_offers' = IF Len(list) = 0 THEN Return(<< >>) ELSE parse_offers(list)
    /\ filtered_offers' = IF parsed_offers'.exc # "none" THEN parsed_offers'
                          ELSE filter_step(parsed_offers'.val, selection)
    /\ displayed' = IF filtered_offers'.exc # "none" THEN filtered_offers'
                    ELSE sort_step(filtered_offers'.val, by)

-----------------------------------------------------------------------------
(* The inputs of display_flight_offers: lists of provider offers with      *)
(* prices that tie, carry a thousands separator or are absent, and legs    *)
(* with zero to three stops, no segments, or no itinerary at all.          *)

MaxOffers == 3

PT10H == <<"P", "T", "1", "0", "H">>
Price9950 == <<"9", "9", ".", "5", "0">>
Price995 == <<"9", "9", ".", "5">>
Price1200 == <<"1", ",", "2", "0", "0", ".", "0", "0">>

Total(amount) == PyDict((K_total :> PyStr(amount)) @@ (K_currency :> PyStr(EUR)))

OneStopOut == Itinerary(PyList(<<SegSfoOrd, SegOrdCdg>>), PyStr(PT10H))
NonStopOut == Itinerary(PyList(<<SegOrdCdg>>), PyStr(PT2H))
NonStopBack == Itinerary(PyList(<<SegCdgSfo>>), PyStr(PT2H))
TwoStopsBack == Itinerary(PyList(<<SegCdgSfo, SegSfoOrd, SegOrdCdg>>), PyStr(PT10H))
ThreeStopsOut == Itinerary(PyList(<<SegSfoOrd, SegOrdCdg, SegCdgSfo, SegSfoOrd>>), PyStr(PT10H))
NoSegments == Itinerary(PyList(<< >>), PyStr(PT2H))

OfferCheapOneStop == Offer(Total(Price9950), PyList(<<OneStopOut, NonStopBack>>))
OfferCheapNonStop == Offer(Total(Price995), PyList(<<NonStopOut>>))
OfferMidTwoStopsBack == Offer(Total(Amount), PyList(<<NonStopBack, TwoStopsBack>>))
OfferDearThreeStops == Offer(Total(Price1200), PyList(<<ThreeStopsOut>>))
OfferNoPrice == Offer(Unused, PyList(<<NonStopOut>>))
OfferNoItineraries == Offer(Total(Amount), PyList(<< >>))
OfferNoSegments == Offer(Total(Price9950), PyList(<<NoSegments>>))

DisplayOffers ==
    {OfferCheapOneStop, OfferCheapNonStop, OfferMidTwoStopsBack, OfferDearThreeStops,
     OfferNoPrice, OfferNoItineraries, OfferNoSegments}

OfferLists == UNION {[1..n -> DisplayOffers] : n \in 0..MaxOffers}

InitDisplay ==
    /\ offers \in OfferLists
    /\ max_stops \in MaxStopsOptions
    /\ sort_by \in SortOptions
    /\ parsed_offers = NotCalled
    /\ filtered_offers = NotCalled
    /\ displayed = NotCalled
    /\ ExtractUnused /\ ClampUnused /\ LegUnused /\ OfferUnused /\ MainUnused

\* the call display_flight_offers(offers, request) with the two selections
DisplayFlightOffers ==
    /\ displayed = NotCalled
    /\ Display(offers, max_stops, sort_by)
    /\ UNCHANGED <<extractVars, clampVars, legVars, offerVars, mainVars,
                   offers, max_stops, sort_by>>

NextDisplay == DisplayFlightOffers

SpecDisplay == InitDisplay /\ [][NextDisplay]_vars

-----------------------------------------------------------------------------
(* Claims about display_flight_offers, under SpecDisplay *)

DisplayCalled == displayed # NotCalled

\* the offers were normalised, so the filter step ran
FilterRan == DisplayCalled /\ parsed_offers.exc = "none"

\* the filter step gave a list, so the sort step ran
SortRan == FilterRan /\ filtered_offers.exc = "none"

\* the ceiling of a selection other than "Any": 0, 1, and 2 for "2+"
Ceiling == IF max_stops = "0" THEN 0 ELSE IF max_stops = "1" THEN 1 ELSE 2

\* the offer has that leg, with its stops
HasLeg(o, key) ==
    key \in DOMAIN o.v /\ o.v[key].t = "dict" /\ K_stops \in DOMAIN o.v[key].v

StopsOf(o, key) == o.v[key].v[K_stops].v

\* outbound stops <= ceiling, and no return leg or return stops <= ceiling;
\* a missing outbound leg counts as more stops than any ceiling
WithinCeiling(o) ==
    /\ HasLeg(o, K_outbound)
    /\ StopsOf(o, K_outbound) <= Ceiling
    /\ HasLeg(o, K_return) => StopsOf(o, K_return) <= Ceiling

\* C11: for every normalised offer list and every selection, the filter
\* step yields exactly the offers within the ceiling, in their original
\* order; with "Any" it yields every offer, in the original order.
C11_FilterRule ==
    FilterRan
        => filtered_offers = Return(IF max_stops = AnyStops THEN parsed_offers.val
                                    ELSE SelectSeq(parsed_offers.val, WithinCeiling))

\* the outbound leg is None (no itineraries)
OutboundIsNone(o) == o.v[K_outbound] = PyNone

\* C11 where no offer of the list is without itineraries
C11_FilterRuleWithItineraries ==
    (FilterRan /\ \A i \in DOMAIN parsed_offers.val : ~OutboundIsNone(parsed_offers.val[i]))
        => filtered_offers = Return(IF max_stops = AnyStops THEN parsed_offers.val
                                    ELSE SelectSeq(parsed_offers.val, WithinCeiling))

\* C12: an offer whose outbound leg is missing (None, or the empty leg)
\* counts as having 999 stops: with a ceiling of 0, 1 or 2 the filter
\* completes and excludes it, and the duration sort completes on such offers.
C12_MissingOutboundExcluded ==
    (FilterRan /\ \E i \in DOMAIN parsed_offers.val : ~HasLeg(parsed_offers.val[i], K_outbound))
        => /\ max_stops # AnyStops =>
                  /\ filtered_offers.exc = "none"
                  /\ \A i \in DOMAIN filtered_offers.val :
                         HasLeg(filtered_offers.val[i], K_outbound)
           /\ (sort_by = DurationShortest /\ filtered_offers.exc = "none")
                  => displayed.exc = "none"

\* the price texts that are numeric, and their values in hundredths
NumericPrices == {Price9950, Price995, Amount, Price1200}

Hundredths(price) ==
    CASE price = Price9950 -> 9950
      [] price = Price995 -> 9950
      [] price = Amount -> 25000
      [] price = Price1200 -> 120000

PriceOf(o) == o.v[K_price].v
IsNumeric(o) == PriceOf(o) \in NumericPrices
IsNotNumeric(o) == ~IsNumeric(o)

PriceSort == sort_by \in {PriceLowToHigh, PriceHighToLow}

\* the numeric offers of the list come in price order, in the direction
\* selected
InPriceOrder(list) ==
    \A i, j \in DOMAIN list :
        (i < j /\ IsNumeric(list[i]) /\ IsNumeric(list[j]))
            => IF sort_by = PriceLowToHigh
               THEN Hundredths(PriceOf(list[i])) <= Hundredths(PriceOf(list[j]))
               ELSE Hundredths(PriceOf(list[i])) >= Hundredths(PriceOf(list[j]))

\* the offers of a list whose price has that value, in the list's order
PricedAt(list, value) ==
    SelectSeq(list, LAMBDA o : IsNumeric(o) /\ Hundredths(PriceOf(o)) = value)

\* both lists hold the same offers of every price, in the same relative order
SameOrderAmongEqualPrices(a, b) ==
    \A p \in NumericPrices : PricedAt(a, Hundredths(p)) = PricedAt(b, Hundredths(p))

\* C13: on offers with numeric prices the price sort gives a permutation of
\* the filtered list in price order, non-decreasing for "Low to High" and
\* non-increasing for "High to Low", offers of equal price keeping their
\* original relative order.
C13_PriceSortStable ==
    (/\ SortRan /\ PriceSort
     /\ \A i \in DOMAIN filtered_offers.val : IsNumeric(filtered_offers.val[i]))
        => /\ displayed.exc = "none"
           /\ Len(displayed.val) = Len(filtered_offers.val)
           /\ InPriceOrder(displayed.val)
           /\ SameOrderAmongEqualPrices(displayed.val, filtered_offers.val)

C13_Witness ==
    /\ DisplayCalled
    /\ offers = <<OfferCheapOneStop, OfferMidTwoStopsBack, OfferCheapNonStop>>
    /\ max_stops = AnyStops /\ sort_by = PriceHighToLow
    /\ displayed = Return(<<parse_flight_offer(OfferMidTwoStopsBack).val,
                            parse_flight_offer(OfferCheapOneStop).val,
                            parse_flight_offer(OfferCheapNonStop).val>>)

\* C14: with an offer whose price does not parse as a number in the list,
\* the price sort does not fail: those offers come last, in their original
\* relative order, the others before them in price order.
C14_UnparseableLast ==
    (/\ SortRan /\ PriceSort
     /\ \E i \in DOMAIN filtered_offers.val : IsNotNumeric(filtered_offers.val[i]))
        => /\ displayed.exc = "none"
           /\ Len(displayed.val) = Len(filtered_offers.val)
           /\ \A i, j \in DOMAIN displayed.val :
                  (IsNumeric(displayed.val[i]) /\ IsNotNumeric(displayed.val[j])) => i < j
           /\ SelectSeq(displayed.val, IsNotNumeric)
                  = SelectSeq(filtered_offers.val, IsNotNumeric)
           /\ InPriceOrder(displayed.val)
           /\ SameOrderAmongEqualPrices(displayed.val, filtered_offers.val)

\* the outbound leg's departure timestamp, for an offer that has the leg
DepartureOf(o) == o.v[K_outbound].v[K_departure_time].v

\* the timestamps of the offers at hand, in lexicographic order
TimeRank(time) == CASE time = Morning -> 1 [] time = Noon -> 2 [] time = Evening -> 3

\* C15: with "Departure Time" selected the displayed offers are the filtered
\* ones ordered non-decreasingly by the outbound leg's departure timestamp.
C15_DepartureTimeOrder ==
    (/\ SortRan /\ sort_by = DepartureTime
     /\ \A i \in DOMAIN filtered_offers.val : HasLeg(filtered_offers.val[i], K_outbound))
        => /\ displayed.exc = "none"
           /\ Len(displayed.val) = Len(filtered_offers.val)
           /\ \A i, j \in DOMAIN displayed.val :
                  i < j => TimeRank(DepartureOf(displayed.val[i]))
                               <= TimeRank(DepartureOf(displayed.val[j]))

-----------------------------------------------------------------------------
(* streamlit_app.main: the generation action *)

Grok == "Grok (xAI)"
HuggingFace == "Hugging Face (Gemma)"
Gemini == "Google Gemini"
Providers == {Grok, HuggingFace, Gemini}

\* lines 422-428: the prompt of the Hugging Face path
hf_prompt(req) ==
    JsonPromptHead \o req.destination
    \o JsonPromptDates \o req.start_date \o JsonPromptTo \o req.end_date
    \o JsonPromptTravelers \o IntToChars(req.travelers)
    \o JsonPromptBudget \o req.budget
    \o JsonPromptInterests \o join_comma(req.interests)
    \o JsonPromptPace \o req.pace
    \o JsonPromptCurrency \o req.currency \o <<".">>

\* lines 459-465: the prompt of the Gemini path
gemini_prompt(req) ==
    JsonPromptHead \o req.destination
    \o JsonPromptDates \o req.start_date \o JsonPromptTo \o req.end_date
    \o JsonPromptTravelers \o IntToChars(req.travelers)
    \o JsonPromptBudget \o req.budget
    \o JsonPromptInterests \o join_comma(req.interests)
    \o JsonPromptPace \o req.pace
    \o JsonPromptCurrency \o req.currency \o <<".">>

QuoteChars == {"'", Quote}

\* lines 442-447: the sidebar's key if it is not blank, else the settings'
gemini_api_key(k) ==
    IF Len(k.gemini_key) > 0 /\ Len(strip(k.gemini_key)) > 0
    THEN strip_chars(strip(k.gemini_key), QuoteChars)
    ELSE IF Len(k.settings_gemini_api_key) > 0
    THEN strip_chars(strip(k.settings_gemini_api_key), QuoteChars)
    ELSE << >>

\* lines 453-455: the sidebar's model if it is not blank, else the settings',
\* else the fallback
gemini_model_name(k) ==
    LET model_name == IF Len(k.gemini_model) > 0 /\ Len(strip(k.gemini_model)) > 0
                      THEN strip(k.gemini_model) ELSE k.settings_gemini_model
    IN  IF Len(model_name) = 0 \/ Len(strip(model_name)) = 0
        THEN GeminiFallbackModel ELSE model_name

\* lines 468-471: out.text, else the joined text of the first candidate's parts
gemini_text(out) ==
    IF Truthy(out.text) THEN out.text
    ELSE IF Len(out.candidates) > 0
    THEN PyStr(join_empty(out.candidates[1]))
    ELSE out.text

\* what st.error shows: the section it belongs to and what it reports
Error(section, what) == [section |-> section, what |-> what]

\* lines 477-478: an exception of the generation action ends as an st.error
PlannerError(kind) == Error("planner", kind)

-----------------------------------------------------------------------------
(* The inputs of a run of main: the sidebar, the settings, and what the    *)
(* provider answers.                                                       *)

MaxTravelers == 2
MaxDays == 31

\* lines 341-368: what sidebar_inputs returns
Requests ==
    [origin : {SFO, ORD}, destination : {CDG, SFO},
     start_date : {StartDate}, end_date : {EndDate},
     travelers : 1..MaxTravelers,
     budget : {Moderate}, pace : {Balanced},
     interests : {<<Food, History>>}, currency : {USD}]

\* lines 383-396: hf_token, gemini_key and gemini_model are asked for only
\* when their provider is selected, and are "" otherwise; the rest is
\* get_settings()
KeysFor(p) ==
    [settings_grok_api_key : {<< >>, GrokKey},
     settings_gemini_api_key : {<< >>, GeminiEnvKey},
     settings_gemini_model : {GeminiModel},
     settings_amadeus_api_key : {<< >>, AmadeusKey},
     settings_amadeus_api_secret : {AmadeusSecret},
     hf_token : IF p = HuggingFace THEN {<< >>, HfToken} ELSE {<< >>},
     gemini_key : IF p = Gemini THEN {<< >>, <<" ">>, <<"'">> \o GeminiKey \o <<"'">>}
                  ELSE {<< >>},
     gemini_model : IF p = Gemini THEN {<< >>, GeminiModel} ELSE {<< >>}]

\* str(n) of any int
IntLexeme(n) == IF n < 0 THEN <<"-">> \o IntToChars(-n) ELSE IntToChars(n)

\* the lexemes total_days is answered with: ints, and values of other types
DaysLexemes ==
    {IntLexeme(n) : n \in (-1)..MaxDays}
    \cup { <<"4", "5">>, <<Quote, "5", Quote>>, <<"7", ".", "5">>,
           <<"t", "r", "u", "e">>, <<"f", "a", "l", "s", "e">>,
           <<"n", "u", "l", "l">>, <<"[", "7", "]">>, <<"{", "}">> }

ItineraryHead == <<"{", Quote>> \o K_destination \o <<Quote, ":", Quote>> \o CDG \o <<Quote>>

\* {"destination":"CDG","total_days":<lexeme>}
ItineraryText(lexeme) ==
    ItineraryHead \o <<",", Quote>> \o K_total_days \o <<Quote, ":">> \o lexeme \o <<"}">>

\* JSON objects, which is all the json_object response format answers with
ObjectTexts ==
    {ItineraryText(lexeme) : lexeme \in DaysLexemes}
    \cup {ItineraryHead \o <<"}">>, EmptyObjectText}

\* any text: objects, bare or fenced or inside prose, other JSON, no JSON
FreeTexts ==
    ObjectTexts
    \cup { FenceJson \o <<"\n">> \o ItineraryText(<<"4", "5">>) \o <<"\n">> \o Fence,
           <<"S", "u", "r", "e", ":", " ">> \o ItineraryText(<<"0">>) \o <<" ", "o", "k">>,
           <<"[", "1", "]">>, <<"4", "5">>, <<"S", "o", "r", "r", "y">>, << >> }

\* the provider call raised instead of answering
CallFailed == [t |-> "raised", v |-> 0]
NoReply == [t |-> "noreply", v |-> 0]

\* message.content of the chat completion: a str or None
GrokReplies == {PyStr(c) : c \in ObjectTexts} \cup {PyNone, CallFailed}

\* res.content of the chat model
HuggingFaceReplies == {PyStr(c) : c \in FreeTexts} \cup {CallFailed}

GeminiOut(text_, candidates) == [t |-> "out", text |-> text_, candidates |-> candidates]

\* out of generate_content: text, or only candidate parts, or neither
GeminiReplies ==
    {GeminiOut(PyStr(c), <<<<c>>>>) : c \in FreeTexts}
    \cup { GeminiOut(PyNone, << >>),
           GeminiOut(PyNone, <<<<ItineraryHead, <<"}">>>>>>),
           CallFailed }

Init ==
    /\ request \in Requests
    /\ provider \in Providers
    /\ keys \in KeysFor(provider)
    /\ pc = "generate"
    /\ reply = NoReply
    /\ calls = << >>
    /\ itinerary = NotCalled
    /\ shown = << >>
    /\ errors = << >>
    /\ offers = NotCalled /\ max_stops = NotCalled /\ sort_by = NotCalled
    /\ parsed_offers = NotCalled /\ filtered_offers = NotCalled /\ displayed = NotCalled
    /\ ExtractUnused /\ ClampUnused /\ LegUnused /\ OfferUnused

\* lines 416-417, 438-439, 473-474: the itinerary goes to the presentation
\* layer; what rendering raises is caught at line 477
Present(itin) ==
    /\ shown' = Append(shown, itin)
    /\ LET rendered == display_formatted_itinerary(itin)
       IN  errors' = IF rendered.exc = "none" THEN errors
                     ELSE Append(errors, PlannerError(rendered.exc))

\* the exception ends the action at line 477
Fail(kind) ==
    /\ errors' = Append(errors, PlannerError(kind))
    /\ UNCHANGED shown

\* lines 413-417: the button is pressed with Grok selected
GenerateGrok ==
    /\ pc = "generate" /\ provider = Grok
    /\ pc' = "search"
    /\ IF Len(keys.settings_grok_api_key) = 0
       THEN /\ Fail("RuntimeError")
            /\ UNCHANGED <<reply, calls, itinerary>>
       ELSE \E r \in GrokReplies :
              /\ reply' = r
              /\ calls' = Append(calls, grok_call(request))
              /\ IF r = CallFailed
                 THEN Fail("APIError") /\ UNCHANGED itinerary
                 ELSE LET parsed_ == JsonOutputParser_parse(planner_content(r))
                          result == planner_node_result(parsed_)
                      IN  /\ itinerary' = parsed_
                          /\ IF result.exc # "none"
                             THEN Fail(result.exc)
                             ELSE Present(result.val)
    /\ UNCHANGED <<extractVars, clampVars, legVars, offerVars, displayVars, request, provider, keys>>

hf_call(req, k) ==
    [to |-> "huggingface", model |-> HfRepo, token |-> k.hf_token, prompt |-> hf_prompt(req)]

\* lines 418-439: the button is pressed with Hugging Face selected
GenerateHuggingFace ==
    /\ pc = "generate" /\ provider = HuggingFace
    /\ pc' = "search"
    /\ IF Len(keys.hf_token) = 0
       THEN /\ errors' = Append(errors, Error("planner", "no Hugging Face API token"))
            /\ UNCHANGED <<reply, calls, itinerary, shown>>
       ELSE \E r \in HuggingFaceReplies :
              /\ reply' = r
              /\ calls' = Append(calls, hf_call(request, keys))
              /\ IF r = CallFailed
                 THEN Fail("HfHubHTTPError") /\ UNCHANGED itinerary
                 ELSE LET result == parse_itinerary_json(r)
                      IN  /\ itinerary' = result
                          /\ Present(result.val)
    /\ UNCHANGED <<extractVars, clampVars, legVars, offerVars, displayVars, request, provider, keys>>

gemini_call(req, k) ==
    [to |-> "gemini", model |-> gemini_model_name(k), api_key |-> gemini_api_key(k),
     prompt |-> gemini_prompt(req)]

\* lines 440-476: the button is pressed with Gemini selected
GenerateGemini ==
    /\ pc = "generate" /\ provider = Gemini
    /\ pc' = "search"
    /\ IF Len(gemini_api_key(keys)) = 0
       THEN /\ errors' = Append(errors, Error("planner", "no Gemini API key"))
            /\ UNCHANGED <<reply, calls, itinerary, shown>>
       ELSE \E r \in GeminiReplies :
              /\ reply' = r
              /\ calls' = Append(calls, gemini_call(request, keys))
              /\ IF r = CallFailed
                 THEN Fail("GoogleAPIError") /\ UNCHANGED itinerary
                 ELSE LET text_ == gemini_text(r)
                          result == parse_itinerary_json(text_)
                      IN  IF Truthy(text_)
                          THEN /\ itinerary' = result
                               /\ Present(result.val)
                          ELSE /\ errors' = Append(errors, Error("planner", "no text in response"))
                               /\ UNCHANGED <<itinerary, shown>>
    /\ UNCHANGED <<extractVars, clampVars, legVars, offerVars, displayVars, request, provider, keys>>

\* line 410: the run passes the section with the button not pressed
SkipGenerate ==
    /\ pc = "generate"
    /\ pc' = "search"
    /\ UNCHANGED <<extractVars, clampVars, legVars, offerVars, displayVars, request, provider,
                   keys, reply, calls, itinerary, shown, errors>>

-----------------------------------------------------------------------------
(* streamlit_app.main: the flight-search action *)

LowerCase == <<"a", "b", "c", "d", "e", "f", "g", "h", "i", "j", "k", "l", "m",
               "n", "o", "p", "q", "r", "s", "t", "u", "v", "w", "x", "y", "z">>
UpperCase == <<"A", "B", "C", "D", "E", "F", "G", "H", "I", "J", "K", "L", "M",
               "N", "O", "P", "Q", "R", "S", "T", "U", "V", "W", "X", "Y", "Z">>

\* str.upper()
upper(s) ==
    [i \in 1..Len(s) |->
        IF \E n \in DOMAIN LowerCase : LowerCase[n] = s[i]
        THEN UpperCase[CHOOSE n \in DOMAIN LowerCase : LowerCase[n] = s[i]]
        ELSE s[i]]

\* config.py line 63
DefaultCurrency == USD

P_origin == "originLocationCode"
P_destination == "destinationLocationCode"
P_departure == "departureDate"
P_adults == "adults"
P_max == "max"
P_return == "returnDate"
P_currency == "currencyCode"
P_nonStop == "nonStop"

\* amadeus_client.py lines 29-42, on the arguments of lines 502-511
search_params(req, non_stop_only, max_results) ==
    LET currency == IF Len(req.currency) > 0 THEN req.currency ELSE DefaultCurrency
    IN  (P_origin :> upper(req.origin))
        @@ (P_destination :> upper(req.destination))
        @@ (P_departure :> req.start_date)
        @@ (P_adults :> IntToChars(IF req.travelers > 1 THEN req.travelers ELSE 1))
        @@ (P_max :> IntToChars(max_results))
        @@ (IF Len(req.end_date) > 0 THEN P_return :> req.end_date ELSE << >>)
        @@ (IF Len(currency) > 0 THEN P_currency :> currency ELSE << >>)
        @@ (IF non_stop_only THEN P_nonStop :> <<"t", "r", "u", "e">> ELSE << >>)

\* amadeus_client.py lines 10-16 and 45: the client is built on the settings'
\* credentials, whatever they are, and the search goes out through it
amadeus_call(req, k, non_stop_only, max_results) ==
    [to |-> "amadeus", client_id |-> k.settings_amadeus_api_key,
     client_secret |-> k.settings_amadeus_api_secret,
     params |-> search_params(req, non_stop_only, max_results)]

\* amadeus_client.py line 46: response.data or []
response_data(data) == IF Truthy(data) THEN data.v ELSE << >>

\* the exception shown as an error of the generation section
FlightError_as_planner(kind) == Error("planner", kind)

\* streamlit_app.py lines 513-515: an exception of the flight-search action
\* ends as an st.error
FlightError(kind) == Error("flights", kind)

\* line 491: the "Max Results" number input, left at its default
MaxResultsChoices == {10}

\* response.data of the flight offers search; with no client id the provider
\* refuses the request
AmadeusReplies(k) ==
    IF Len(k.settings_amadeus_api_key) = 0 THEN {CallFailed}
    ELSE { PyNone,
           PyList(<<OfferMidTwoStopsBack, OfferCheapOneStop>>),
           PyList(<<OfferNoPrice>>),
           CallFailed }

\* lines 497-515: the search button is pressed; display_flight_offers draws
\* its two select boxes afresh, at index 0
SearchFlights ==
    /\ pc = "search"
    /\ pc' = "done"
    /\ \E non_stop_only \in BOOLEAN, max_results \in MaxResultsChoices,
          r \in AmadeusReplies(keys) :
          /\ calls' = Append(calls, amadeus_call(request, keys, non_stop_only, max_results))
          /\ IF r = CallFailed
             THEN /\ errors' = Append(errors, FlightError("RuntimeError"))
                  /\ UNCHANGED displayVars
             ELSE /\ offers' = response_data(r)
                  /\ max_stops' = AnyStops
                  /\ sort_by' = PriceLowToHigh
                  /\ Display(offers', max_stops', sort_by')
                  /\ errors' = IF displayed'.exc = "none" THEN errors
                               ELSE Append(errors, FlightError(displayed'.exc))
    /\ UNCHANGED <<extractVars, clampVars, legVars, offerVars, request, provider, keys,
                   reply, itinerary, shown>>

\* line 497: the run passes the section with the button not pressed
SkipSearch ==
    /\ pc = "search"
    /\ pc' = "done"
    /\ UNCHANGED <<extractVars, clampVars, legVars, offerVars, displayVars, request, provider,
                   keys, reply, calls, itinerary, shown, errors>>

Next ==
    \/ GenerateGrok \/ GenerateHuggingFace \/ GenerateGemini \/ SkipGenerate
    \/ SearchFlights \/ SkipSearch

Spec == Init /\ [][Next]_vars

-----------------------------------------------------------------------------
(* Claims about the generation action *)

\* the generation action ran and handed an itinerary to the presentation layer
Presented == pc # "generate" /\ Len(shown) = 1

\* the provider's answer parsed to a mapping
ParsedMapping == itinerary # NotCalled /\ itinerary.exc = "none" /\ itinerary.val.t = "dict"

\* the parsed mapping has a total_days of one of the given types
TotalDaysIs(types) ==
    /\ ParsedMapping
    /\ K_total_days \in DOMAIN itinerary.val.v
    /\ itinerary.val.v[K_total_days].t \in types

\* C4: whichever provider is selected, when the parsed itinerary mapping has
\* an integer total_days, the itinerary handed to the presentation layer has
\* total_days within [1, 30].
C4_ClampedForEveryProvider ==
    (Presented /\ TotalDaysIs({"int"}))
        => /\ shown[1].t = "dict"
           /\ K_total_days \in DOMAIN shown[1].v
           /\ shown[1].v[K_total_days].t = "int"
           /\ shown[1].v[K_total_days].v \in DefaultMinDays..DefaultMaxDays

\* C6: in planner_node, when the parsed itinerary has no total_days or one
\* that is not an integer (a string, a decimal number, a boolean, null, a
\* list, an object), the itinerary returned is the parsed one: total_days
\* absent or identical in value and type, every other key unchanged.
C6_NonIntegerPassesThrough ==
    (/\ provider = Grok
     /\ Presented
     /\ ParsedMapping
     /\ \/ K_total_days \notin DOMAIN itinerary.val.v
        \/ TotalDaysIs({"str", "float", "bool", "none", "list", "dict"}))
        => shown[1] = itinerary.val

\* the outbound calls that go to the flight provider, and those to an LLM
IsFlightCall(c) == c.to = "amadeus"
IsPlannerCall(c) == c.to # "amadeus"

\* C7: for every request and every provider, the prompt sent to the LLM
\* contains the request's origin, destination, start date, end date and
\* traveler count.
C7_PromptNamesTheTrip ==
    \A i \in DOMAIN calls :
        IsPlannerCall(calls[i])
            => /\ Contains(calls[i].prompt, request.origin)
               /\ Contains(calls[i].prompt, request.destination)
               /\ Contains(calls[i].prompt, request.start_date)
               /\ Contains(calls[i].prompt, request.end_date)
               /\ Contains(calls[i].prompt, IntToChars(request.travelers))

-----------------------------------------------------------------------------
(* Claims about the two actions of main *)

\* the key the action requires is missing or empty
GrokKeyMissing == Len(keys.settings_grok_api_key) = 0
HuggingFaceKeyMissing == Len(keys.hf_token) = 0
GeminiKeyMissing ==
    Len(strip(keys.gemini_key)) = 0 /\ Len(keys.settings_gemini_api_key) = 0
AmadeusKeyMissing == Len(keys.settings_amadeus_api_key) = 0

\* the step is a user action that lacks its key
ActionWithoutKey ==
    \/ GrokKeyMissing /\ GenerateGrok
    \/ HuggingFaceKeyMissing /\ GenerateHuggingFace
    \/ GeminiKeyMissing /\ GenerateGemini
    \/ AmadeusKeyMissing /\ SearchFlights

\* the step shows one error and makes no outbound call
EndsInErrorWithoutCall == Len(errors') = Len(errors) + 1 /\ calls' = calls

\* C16: every user action (generate with Grok, Hugging Face or Gemini;
\* search flights with Amadeus) whose API key is missing or empty ends with
\* a user-visible error, makes no outbound call to the provider, and is not
\* retried.
C16_MissingKeyStopsTheAction == [][ActionWithoutKey => EndsInErrorWithoutCall]_vars

\* C16 for the three generation actions
C16_MissingKeyStopsGeneration ==
    [][(ActionWithoutKey /\ pc = "generate") => EndsInErrorWithoutCall]_vars

\* the errors a step adds
NewErrors == SubSeq(errors', Len(errors) + 1, Len(errors'))

\* the step keeps the errors shown so far and adds only errors of that section
ReportsWithin(section) ==
    /\ Len(errors') >= Len(errors)
    /\ SubSeq(errors', 1, Len(errors)) = errors
    /\ \A i \in DOMAIN NewErrors : NewErrors[i].section = section

\* a step of the generation section, whatever its outcome, reports within
\* the section, hands over to the flight-search section and leaves the
\* search's inputs and results alone
GenerationIsScoped ==
    pc = "generate"
        => /\ pc' = "search"
           /\ ReportsWithin("planner")
           /\ UNCHANGED <<request, provider, keys, displayVars>>
           /\ SelectSeq(calls', IsFlightCall) = SelectSeq(calls, IsFlightCall)

\* a step of the flight-search section, whatever its outcome, reports within
\* the section, lets the run go on to its end and leaves the generation's
\* inputs and results alone
SearchIsScoped ==
    pc = "search"
        => /\ pc' = "done"
           /\ ReportsWithin("flights")
           /\ UNCHANGED <<request, provider, keys, reply, itinerary, shown>>
           /\ SelectSeq(calls', IsPlannerCall) = SelectSeq(calls, IsPlannerCall)
           /\ (displayed' # NotCalled /\ displayed'.exc # "none")
                  => Len(errors') = Len(errors) + 1

\* C17: in a run of main a failure of the generation action is caught and
\* reported within that action and the flight-search section still runs; a
\* failure of the flight-search action is caught and reported and the run
\* goes on; neither action changes the inputs or the result of the other.
C17_FailuresAreScoped == [][GenerationIsScoped /\ SearchIsScoped]_vars

\* both actions failed, each with its own error, and the run reached its end
C17_Witness ==
    /\ pc = "done"
    /\ Len(errors) = 2
    /\ errors[1].section = "planner"
    /\ errors[2].section = "flights"
    /\ displayed # NotCalled /\ displayed.exc = "ValueError"

====
